---- MODULE Spec2Model ----
(***************************************************************************)
(* Connection tracking and per-connection packet arbitration of            *)
(* network/connection.go: the Connection record, its verdict calls, the    *)
(* data enrichment (GatherConnectionInfo), Save/delete against the two     *)
(* registry tables, and the packet queue with its packetHandlerWorker.     *)
(* One Connection is modelled; threads are the callers of HandlePacket,    *)
(* an owner thread that calls the Connection's API under the connection    *)
(* mutex, and the workers spawned by SetFirewallHandler.                   *)
(***************************************************************************)
EXTENDS Integers, Sequences, FiniteSets, TLC

(***************************************************************************)
(* Bounds of the model.                                                    *)
(***************************************************************************)
\* events in one behaviour: packets offered to HandlePacket plus attachments
\* (each SetFirewallHandler on a Connection without a handler allocates one
\* queue and starts one worker)
MaxEvents == 4
\* packets offered in the queue-overflow specification (more than the capacity)
MaxFlood == 102
\* attachments in one behaviour of the lifecycle specification
MaxLifeEvents == 2
\* events (packets plus the attachment) in one behaviour of the save specification
MaxSaveEvents == 3
\* packets offered in one behaviour of the attach-then-detach specification
MaxDetachPkts == 2

(***************************************************************************)
(* Program constants.                                                      *)
(***************************************************************************)
\* make(chan packet.Packet, 100)
PktQueueSize == 100

\* Verdict severity order (network.Verdict, as ordered by the specification)
VerdictUndecided == 0
VerdictAccept == 1
VerdictTrust == 2
VerdictRerouteToNameserver == 3
VerdictRerouteToTunnel == 4
VerdictBlock == 5
VerdictDrop == 6
VerdictFailed == 7
Verdicts == VerdictUndecided..VerdictFailed

\* ConnectionType
IPConnection == "IPConnection"
DNSRequest == "DNSRequest"

\* process.UndefinedProcessID
UndefinedProcessID == -1

\* time.Date(2020, 1, 1, 0, 0, 0, 0, time.UTC).Unix()
tooOldTimestamp == 1577836800

(***************************************************************************)
(* Threads.                                                                *)
(***************************************************************************)
NoOne == <<"none", 0>>
Owner == <<"owner", 1>>
\* the callers of HandlePacket are serialized by pktQueueLock: one stands for all
Callers == {<<"caller", 1>>}
Workers == {<<"worker", i>> : i \in 1..MaxEvents}
Threads == Callers \cup Workers \cup {Owner}

(***************************************************************************)
(* Packets.  A packet carries the order in which it was offered to         *)
(* HandlePacket (id) and what the worker and GatherConnectionInfo read of  *)
(* it: InfoOnly(), ExpectInfo() and IsOutbound().                          *)
(***************************************************************************)
PacketKinds ==
    { [infoOnly |-> TRUE,  expectInfo |-> FALSE, inbound |-> FALSE],
      [infoOnly |-> FALSE, expectInfo |-> TRUE,  inbound |-> FALSE],
      [infoOnly |-> FALSE, expectInfo |-> FALSE, inbound |-> FALSE],
      [infoOnly |-> FALSE, expectInfo |-> FALSE, inbound |-> TRUE] }
PlainKind == [infoOnly |-> FALSE, expectInfo |-> FALSE, inbound |-> TRUE]
MkPacket(n, k) ==
    [id |-> n, infoOnly |-> k.infoOnly, expectInfo |-> k.expectInfo, inbound |-> k.inbound]
\* the nil packet.Packet (what a receive on a closed, drained channel yields)
NilPkt == [id |-> 0, infoOnly |-> FALSE, expectInfo |-> FALSE, inbound |-> FALSE]
IsOutbound(p) == ~p.inbound

\* one handler invocation, as recorded in the history: the packet, the handler
\* (custom or default) and who invoked it (a worker or HandlePacket's caller)
Handling(p, by, via) == [id |-> p.id, infoOnly |-> p.infoOnly, by |-> by, via |-> via]

\* firewall handlers (FirewallHandler values); NilHandler is the nil func
NilHandler == "nil"
Handlers == {"h1", "h2"}

(***************************************************************************)
(* State.                                                                  *)
(***************************************************************************)
VARIABLES
    conn,          \* the Connection record (struct Connection)
    conns,         \* registry table of IP connections (IDs)
    dnsConns,      \* registry table of DNS requests (IDs)
    pushed,        \* dbController.PushUpdate calls: {[by, complete]}
    saved,         \* history: DataIsComplete() as seen by the Save calls so far
    lastCall,      \* history: the last Save or delete call, and DataIsComplete() then
    chans,         \* the channels allocated so far: <<[buf, closed], ...>>
    mutex,         \* holder of conn.Mutex
    pktQueueLock,  \* holder of conn.pktQueueLock
    infoOnlyPacketsActive, \* the process-wide flag
    pc,            \* position of every thread
    wl,            \* locals of every worker: pktQueue, pktSeq, pkt, infoPkt, stage
    nworkers,      \* workers started by module.StartWorker
    ctxDone,       \* the workers' context is cancelled
    nextPkt,       \* packets offered to HandlePacket so far
    handled,       \* history: the handler invocations, in order
    running,       \* threads that are inside a handler invocation
    dropped,       \* ids of the packets whose Drop() was invoked
    assigned,      \* history: the verdicts assigned so far by verdict calls
    made,          \* history: how the Connection was built, and from which inputs
    imp,           \* the import request being parsed by parseExport, and its result
    panicked       \* a send on a closed channel or a second close happened

vars == <<conn, conns, dnsConns, pushed, saved, lastCall, chans, mutex, pktQueueLock,
          infoOnlyPacketsActive, pc, wl, nworkers, ctxDone, nextPkt, handled,
          running, dropped, assigned, made, imp, panicked>>

pipeVars == <<chans, mutex, pktQueueLock, infoOnlyPacketsActive, pc, wl, nworkers,
              ctxDone, nextPkt, handled, running, dropped, panicked>>

(***************************************************************************)
(* Collaborators' values.                                                  *)
(***************************************************************************)
\* *process.Process: nil, or a process with or without a profile
NilProcess == [nil |-> TRUE, Pid |-> UndefinedProcessID, hasProfile |-> FALSE, Internal |-> FALSE]
MkProcess(pid, hasProfile, internal) ==
    [nil |-> FALSE, Pid |-> pid, hasProfile |-> hasProfile, Internal |-> internal]
\* proc.Profile() != nil  (Profile() is nil-safe on a nil process)
HasProfile(proc) == ~proc.nil /\ proc.hasProfile
\* proc.Profile().RevisionCnt()
RevisionCnt(proc) == IF HasProfile(proc) THEN 1 ELSE 0
\* lp.GetProfileSource(key)
GetProfileSource(proc, key) == "profile"

\* *intel.Entity
NilEntity == [nil |-> TRUE, Domain |-> "", IPScope |-> "Undefined"]
IPScopes == {"Invalid", "Undefined", "HostLocal", "LinkLocal", "SiteLocal", "Global",
             "LocalMulticast", "GlobalMulticast"}

ConnID == "conn-1"
Pids == {UndefinedProcessID, 4711}

(***************************************************************************)
(* Construction.                                                           *)
(***************************************************************************)
\* the record's database key: unset, or makeKey(pid, scope, id)
NoKey == <<>>
dbScopeDNS == "dns"
dbScopeIP == "ip"
makeKey(pid, scope, id) == <<pid, scope, id>>

EmptyReason == [Msg |-> "", OptionKey |-> "", Profile |-> "", Context |-> "nil"]
ZeroVerdict == [Worst |-> VerdictUndecided, Active |-> VerdictUndecided,
                Firewall |-> VerdictUndecided]

\* mutant: the timestamp of the packet is taken as it is
StartedOfUnchecked(seenAt, now) == seenAt

\* lines 416, 421-425: Started is the packet's SeenAt, or the current time when
\* SeenAt is before tooOldTimestamp
StartedOf(seenAt, now) == IF seenAt < tooOldTimestamp THEN now ELSE seenAt

\* NewIncompleteConnection: the Connection built from a packet's info
\* (info.PID, info.SeenAt), at the time now
NewIncompleteConnection(pid, seenAt, now) ==
    [ ID |-> ConnID, Type |-> IPConnection, Scope |-> "", Inbound |-> FALSE,
      Started |-> StartedOf(seenAt, now),
      PID |-> pid, Entity |-> NilEntity, process |-> NilProcess,
      ProfileRevisionCounter |-> 0, Internal |-> FALSE,
      HistoryEnabled |-> FALSE, BandwidthEnabled |-> FALSE,
      Verdict |-> ZeroVerdict, Reason |-> EmptyReason,
      dataComplete |-> FALSE, keySet |-> FALSE, key |-> NoKey, deleted |-> FALSE,
      addedToMetrics |-> FALSE,
      pktQueue |-> 0, pktQueueActive |-> FALSE, firewallHandler |-> NilHandler,
      saveWhenFinished |-> FALSE ]

\* GetDNSRequestConnection(pi): no entry, or the pre-registered entry's PID,
\* Ended and process
NoEntry == [ok |-> FALSE, PID |-> UndefinedProcessID, Ended |-> 0, process |-> NilProcess]
\* process.GetProcessWithProfile(ctx, pid): the process of that PID
GetProcessWithProfile(pid, hasProfile) == MkProcess(pid, hasProfile, FALSE)

\* mutant: an entry that ended is inherited whenever it ended
InheritsEnded(entry, now) ==
    CASE ~entry.ok -> FALSE
      [] entry.PID < 0 -> FALSE
      [] OTHER -> TRUE

\* lines 294-310: is the PID and the process of the entry inherited
Inherits(entry, now) ==
    CASE ~entry.ok -> FALSE
      [] entry.PID < 0 -> FALSE
      [] entry.Ended > 0 /\ entry.Ended < now - 3 -> FALSE
      [] OTHER -> TRUE

\* NewConnectionFromDNSRequest: the Connection built for a DNS request, from
\* the entry found for it, the PID the OS state tables give (osPid) and the
\* process found for a PID (with or without a profile), at the time now
NewConnectionFromDNSRequest(fqdn, entry, now, osPid, hasProfile) ==
    LET pid0 == IF Inherits(entry, now) THEN entry.PID ELSE UndefinedProcessID
        proc0 == IF Inherits(entry, now) THEN entry.process ELSE NilProcess
        pid == IF pid0 = UndefinedProcessID THEN osPid ELSE pid0
        proc == IF proc0.nil THEN GetProcessWithProfile(pid, hasProfile) ELSE proc0
    IN  [ NewIncompleteConnection(proc.Pid, now, now) EXCEPT
            !.Type = DNSRequest, !.Scope = fqdn,
            !.Entity = [nil |-> FALSE, Domain |-> fqdn, IPScope |-> "Global"],
            !.process = proc,
            !.Started = now,
            !.Internal = IF HasProfile(proc) THEN proc.Internal ELSE FALSE,
            !.dataComplete = TRUE ]

\* the inputs of the two constructors, as kept in the history
PacketInputs(seenAt, now) == [kind |-> "packet", seenAt |-> seenAt, now |-> now]
DNSInputs(entry, now, osPid) == [kind |-> "dns", entry |-> entry, now |-> now, osPid |-> osPid]
\* a time of day at which the program runs
SomeNow == tooOldTimestamp + 86400

(***************************************************************************)
(* Verdict calls.                                                          *)
(***************************************************************************)
\* SetVerdictDirectly sets the firewall verdict.
SetVerdictDirectly(c, newVerdict) ==
    [c EXCEPT !.Verdict.Firewall = newVerdict]

\* mutant: the new reason is appended to the message instead of replacing it
SetVerdictAppendsReason(c, newVerdict, reason, reasonOptionKey, reasonCtx) ==
    LET c1 == SetVerdictDirectly(c, newVerdict)
        withKey == reasonOptionKey # "" /\ HasProfile(c1.process)
    IN  [c1 EXCEPT
           !.Reason = [ Msg |-> c.Reason.Msg \o reason,
                        Context |-> reasonCtx,
                        OptionKey |-> IF withKey THEN reasonOptionKey ELSE "",
                        Profile |-> IF withKey
                                      THEN GetProfileSource(c1.process, reasonOptionKey)
                                      ELSE "" ]]

\* mutant: the option key and the profile are not reset
SetVerdictKeepsKey(c, newVerdict, reason, reasonOptionKey, reasonCtx) ==
    LET c1 == SetVerdictDirectly(c, newVerdict)
        withKey == reasonOptionKey # "" /\ HasProfile(c1.process)
    IN  [c1 EXCEPT
           !.Reason = [ Msg |-> reason,
                        Context |-> reasonCtx,
                        OptionKey |-> IF withKey THEN reasonOptionKey ELSE c.Reason.OptionKey,
                        Profile |-> IF withKey
                                      THEN GetProfileSource(c1.process, reasonOptionKey)
                                      ELSE c.Reason.Profile ]]

\* SetVerdict sets a new verdict for the connection and replaces the reason.
SetVerdict(c, newVerdict, reason, reasonOptionKey, reasonCtx) ==
    LET c1 == SetVerdictDirectly(c, newVerdict)
        withKey == reasonOptionKey # "" /\ HasProfile(c1.process)
    IN  [c1 EXCEPT
           !.Reason = [ Msg |-> reason,
                        Context |-> reasonCtx,
                        OptionKey |-> IF withKey THEN reasonOptionKey ELSE "",
                        Profile |-> IF withKey
                                      THEN GetProfileSource(c1.process, reasonOptionKey)
                                      ELSE "" ]]

AcceptWithContext(c, reason, key, ctx) == SetVerdict(c, VerdictAccept, reason, key, ctx)
BlockWithContext(c, reason, key, ctx) == SetVerdict(c, VerdictBlock, reason, key, ctx)
DropWithContext(c, reason, key, ctx) == SetVerdict(c, VerdictDrop, reason, key, ctx)
FailedWithContext(c, reason, key, ctx) == SetVerdict(c, VerdictFailed, reason, key, ctx)
\* mutant: Deny blocks in both directions
DenyAlwaysBlocks(c, reason, key, ctx) == BlockWithContext(c, reason, key, ctx)

DenyWithContext(c, reason, key, ctx) ==
    IF c.Inbound THEN DropWithContext(c, reason, key, ctx)
                 ELSE BlockWithContext(c, reason, key, ctx)


(***************************************************************************)
(* Data enrichment.  env holds what the collaborators answer during one    *)
(* call: remoteScope (the IP scope of the packet's remote IP), pid and     *)
(* inbound (process.GetPidOfConnection), proc (GetProcessWithProfile; nil  *)
(* on failure), domain (resolver.GetIPInfo, "" when there is no hit),      *)
(* portal (the remote IP is the captive portal's), mayHistory, mayBW       *)
(* (access.GetUser / MayUse) and enableHistory (the profile's toggle).     *)
(***************************************************************************)
PortalDomain == "portal.example"
ResolvedDomains == {"", "example.com"}

\* Scope of a direct connection, from its direction and the remote IP scope
ScopeOf(inbound, ipScope) ==
    IF inbound
      THEN CASE ipScope = "HostLocal" -> "IncomingHost"
             [] ipScope \in {"LinkLocal", "SiteLocal", "LocalMulticast"} -> "IncomingLAN"
             [] ipScope \in {"Global", "GlobalMulticast"} -> "IncomingInternet"
             [] OTHER -> "IncomingInvalid"
      ELSE CASE ipScope = "HostLocal" -> "PeerHost"
             [] ipScope \in {"LinkLocal", "SiteLocal", "LocalMulticast"} -> "PeerLAN"
             [] ipScope \in {"Global", "GlobalMulticast"} -> "PeerInternet"
             [] OTHER -> "PeerInvalid"

\* UpdateFeatures sets HistoryEnabled and BandwidthEnabled.
UpdateFeatures(c, env) ==
    [c EXCEPT
       !.HistoryEnabled =
           CASE c.Internal -> FALSE
             [] c.Entity.IPScope = "HostLocal" -> FALSE
             [] env.mayHistory -> IF HasProfile(c.process) THEN env.enableHistory ELSE FALSE
             [] OTHER -> FALSE,
       !.BandwidthEnabled = env.mayBW]

\* mutant: the scope is derived again for every packet
GatherEntityAlways(c, env) ==
    [c EXCEPT !.Entity = IF c.Entity.nil
                           THEN [nil |-> FALSE, Domain |-> "", IPScope |-> env.remoteScope]
                           ELSE @,
              !.Scope = ScopeOf(c.Inbound, env.remoteScope)]

\* lines 439-481: create the remote entity and derive the scope
GatherEntity(c, env) ==
    IF c.Entity.nil
      THEN [c EXCEPT !.Entity = [nil |-> FALSE, Domain |-> "", IPScope |-> env.remoteScope],
                     !.Scope = ScopeOf(c.Inbound, env.remoteScope)]
      ELSE c

\* lines 484-489: get the PID (and the direction) from the system state tables
GatherPID(c, env) ==
    IF c.PID = UndefinedProcessID
      THEN [c EXCEPT !.PID = env.pid, !.Inbound = env.inbound]
      ELSE c

\* lines 498-509: get process and profile
GatherProcess(c, env) ==
    IF c.process.nil
      THEN [c EXCEPT !.process = IF env.proc.nil THEN NilProcess
                                 ELSE [env.proc EXCEPT !.Pid = c.PID]]
      ELSE c

\* lines 512-525: apply process/profile info to the connection
GatherProfile(c, env) ==
    IF c.ProfileRevisionCounter = 0 /\ ~c.process.nil
      THEN LET c1 == [c EXCEPT !.ProfileRevisionCounter = RevisionCnt(c.process)]
           IN  IF HasProfile(c1.process)
                 THEN UpdateFeatures([c1 EXCEPT !.Internal = c1.process.Internal], env)
                 ELSE c1
      ELSE c

\* lines 528-546: find the domain of the entity in the resolver's IP info
GatherDomain(c, env) ==
    IF c.Entity.Domain = "" /\ HasProfile(c.process) /\ env.domain # ""
      THEN [c EXCEPT !.Scope = env.domain, !.Entity.Domain = env.domain]
      ELSE c

\* mutant: the captive portal's domain replaces a domain that is set
GatherPortalOverwrites(c, env) ==
    IF env.portal
      THEN [c EXCEPT !.Scope = PortalDomain, !.Entity.Domain = PortalDomain]
      ELSE c

\* lines 549-555: the captive portal's IP
GatherPortal(c, env) ==
    IF c.Entity.Domain = "" /\ env.portal
      THEN [c EXCEPT !.Scope = PortalDomain, !.Entity.Domain = PortalDomain]
      ELSE c

\* lines 558-570: is the data complete
GatherComplete(c, pkt) ==
    CASE pkt.infoOnly -> c
      [] c.process.nil -> c
      [] ~HasProfile(c.process) -> c
      [] c.Entity.nil -> c
      [] OTHER -> [c EXCEPT !.dataComplete = TRUE]

\* mutant: an info-only packet marks the connection incomplete again
GatherConnectionInfoResets(c, pkt, env) ==
    LET c2 == GatherPID(GatherEntity(c, env), env)
    IN  IF pkt.infoOnly
          THEN [c2 EXCEPT !.dataComplete = FALSE]
          ELSE GatherComplete(
                 GatherPortal(GatherDomain(GatherProfile(GatherProcess(c2, env), env), env), env),
                 pkt)

\* mutant: the process and the profile are looked up for info-only packets too
GatherConnectionInfoLooksUp(c, pkt, env) ==
    LET c2 == GatherPID(GatherEntity(c, env), env)
    IN  GatherComplete(
          GatherPortal(GatherDomain(GatherProfile(GatherProcess(c2, env), env), env), env),
          pkt)

\* GatherConnectionInfo gathers information on the process and remote entity.
GatherConnectionInfo(c, pkt, env) ==
    LET c2 == GatherPID(GatherEntity(c, env), env)
    IN  IF pkt.infoOnly
          THEN c2
          ELSE GatherComplete(
                 GatherPortal(GatherDomain(GatherProfile(GatherProcess(c2, env), env), env), env),
                 pkt)

\* what the collaborators may answer
GatherEnvs ==
    [ remoteScope : IPScopes, pid : Pids, inbound : BOOLEAN,
      proc : {NilProcess} \cup {MkProcess(0, hp, int) : hp \in BOOLEAN, int \in BOOLEAN},
      domain : ResolvedDomains, portal : BOOLEAN,
      mayHistory : BOOLEAN, mayBW : BOOLEAN, enableHistory : BOOLEAN ]
\* the answers used where the queue and the workers are explored
PipeEnvs ==
    { e \in GatherEnvs :
        /\ e.remoteScope = "Global" /\ e.pid = 4711 /\ ~e.inbound
        /\ e.proc \in {NilProcess, MkProcess(0, TRUE, FALSE)}
        /\ e.domain = "" /\ ~e.portal
        /\ e.mayHistory /\ e.mayBW /\ e.enableHistory }

(***************************************************************************)
(* Save and delete.  Both are written over a Connection value c, the       *)
(* Connection as the caller left it, and define the next state of conn,    *)
(* of the registry tables and of the pushes.                               *)
(***************************************************************************)
PushUpdate(c, by) == pushed' = pushed \cup {[by |-> by, complete |-> c.dataComplete]}

\* lines 766-774: the first Save sets the key ...
SetKey(c) ==
    IF ~c.keySet
      THEN [c EXCEPT !.keySet = TRUE,
                     !.key = makeKey(c.process.Pid,
                                     IF c.Type = DNSRequest THEN dbScopeDNS ELSE dbScopeIP,
                                     c.ID)]
      ELSE c

\* ... and adds the connection to the matching table
AddToTable(c) ==
    IF ~c.keySet
      THEN IF c.Type = DNSRequest
             THEN /\ dnsConns' = dnsConns \cup {c.ID}
                  /\ UNCHANGED conns
             ELSE /\ conns' = conns \cup {c.ID}
                  /\ UNCHANGED dnsConns
      ELSE UNCHANGED <<conns, dnsConns>>

\* mutant: Save without the DataIsComplete check
SaveAlways(c) ==
    /\ saved' = saved \cup {c.dataComplete}
    /\ lastCall' = [op |-> "Save", complete |-> c.dataComplete]
    /\ conn' = [SetKey(c) EXCEPT !.addedToMetrics = TRUE]
    /\ AddToTable(c)
    /\ PushUpdate(c, "Save")

\* Save saves the connection in the storage and propagates the change.
Save(c) ==
    /\ saved' = saved \cup {c.dataComplete}
    /\ lastCall' = [op |-> "Save", complete |-> c.dataComplete]
    /\ IF ~c.dataComplete
         THEN /\ conn' = c
              /\ UNCHANGED <<conns, dnsConns, pushed>>
         ELSE /\ conn' = [SetKey(c) EXCEPT !.addedToMetrics = TRUE]
              /\ AddToTable(c)
              /\ PushUpdate(c, "Save")

\* mutant: delete notifies the database controller in every case
DeleteAlwaysPushes(c) ==
    /\ conn' = [c EXCEPT !.deleted = TRUE]
    /\ IF c.Type = IPConnection
         THEN /\ conns' = conns \ {c.ID}
              /\ UNCHANGED dnsConns
         ELSE /\ dnsConns' = dnsConns \ {c.ID}
              /\ UNCHANGED conns
    /\ PushUpdate(c, "delete")
    /\ lastCall' = [op |-> "delete", complete |-> c.dataComplete]
    /\ UNCHANGED saved

\* delete deletes a link from the storage and propagates the change.
Delete(c) ==
    /\ conn' = [c EXCEPT !.deleted = TRUE]
    /\ IF c.Type = IPConnection
         THEN /\ conns' = conns \ {c.ID}
              /\ UNCHANGED dnsConns
         ELSE /\ dnsConns' = dnsConns \ {c.ID}
              /\ UNCHANGED conns
    /\ IF c.dataComplete
         THEN PushUpdate(c, "delete")
         ELSE UNCHANGED pushed
    /\ lastCall' = [op |-> "delete", complete |-> c.dataComplete]
    /\ UNCHANGED saved


(***************************************************************************)
(* Channels.                                                               *)
(***************************************************************************)
NewChan == [buf |-> <<>>, closed |-> FALSE]
\* a receive is ready: a buffered packet, or the channel is closed
CanRecv(q) == q # 0 /\ (chans[q].buf # <<>> \/ chans[q].closed)
\* the received value: the oldest buffered packet, nil from a closed drained channel
RecvValue(q) == IF chans[q].buf # <<>> THEN Head(chans[q].buf) ELSE NilPkt
AfterRecv(q) ==
    IF chans[q].buf # <<>> THEN [chans EXCEPT ![q].buf = Tail(chans[q].buf)] ELSE chans

\* mutant: the send never takes the default branch
TrySendAlways(ch, pkt) ==
    [ch |-> [ch EXCEPT !.buf = Append(ch.buf, pkt)], sent |-> TRUE]

\* select { case conn.pktQueue <- pkt: ; default: pkt.Drop() }
TrySend(ch, pkt) ==
    IF Len(ch.buf) < PktQueueSize
      THEN [ch |-> [ch EXCEPT !.buf = Append(ch.buf, pkt)], sent |-> TRUE]
      ELSE [ch |-> ch, sent |-> FALSE]

(***************************************************************************)
(* What one behaviour explores: lim.pkts packets, lim.attach attachments,  *)
(* lim.events of both together.                                            *)
(***************************************************************************)
MayOffer(lim) == nextPkt < lim.pkts /\ nextPkt + Len(chans) < lim.events
MayAttach(lim) == Len(chans) < lim.attach /\ nextPkt + Len(chans) < lim.events
PipeLim == [pkts |-> MaxEvents, attach |-> MaxEvents, events |-> MaxEvents]

(***************************************************************************)
(* HandlePacket queues a packet for handling, or runs the default handler. *)
(***************************************************************************)
\* the queue is active: non-blocking send under pktQueueLock
HandlePacketQueue(t, k, lim) ==
    /\ pc[t] = "idle" /\ pktQueueLock = NoOne
    /\ MayOffer(lim)
    /\ conn.pktQueueActive
    /\ LET pkt == MkPacket(nextPkt + 1, k)
           q == conn.pktQueue
       IN  IF q = 0 \/ chans[q].closed
             THEN /\ panicked' = TRUE
                  /\ UNCHANGED <<chans, dropped>>
             ELSE LET r == TrySend(chans[q], pkt)
                  IN  /\ chans' = [chans EXCEPT ![q] = r.ch]
                      /\ dropped' = IF r.sent THEN dropped ELSE dropped \cup {pkt.id}
                      /\ UNCHANGED panicked
    /\ nextPkt' = nextPkt + 1
    /\ UNCHANGED <<conn, conns, dnsConns, pushed, saved, lastCall, mutex, pktQueueLock,
                   infoOnlyPacketsActive, pc, wl, nworkers, ctxDone, handled, running,
                   assigned, made, imp>>

\* no queue: the default handler runs in the caller, under pktQueueLock
HandlePacketDefault(t, k, lim) ==
    /\ pc[t] = "idle" /\ pktQueueLock = NoOne
    /\ MayOffer(lim)
    /\ ~conn.pktQueueActive
    /\ pktQueueLock' = t
    /\ pc' = [pc EXCEPT ![t] = "hpDefault"]
    /\ nextPkt' = nextPkt + 1
    /\ handled' = Append(handled, Handling(MkPacket(nextPkt + 1, k), "default", "caller"))
    /\ running' = running \cup {t}
    /\ UNCHANGED <<conn, conns, dnsConns, pushed, saved, lastCall, chans, mutex, infoOnlyPacketsActive,
                   wl, nworkers, ctxDone, dropped, assigned, made, imp, panicked>>

\* mutant: the default handler run by HandlePacket locks the connection
HandlePacketReturnLocks(t) ==
    /\ pc[t] = "hpDefault" /\ mutex = NoOne
    /\ pktQueueLock' = NoOne
    /\ pc' = [pc EXCEPT ![t] = "idle"]
    /\ running' = running \ {t}
    /\ UNCHANGED <<conn, conns, dnsConns, pushed, saved, lastCall, chans, mutex, infoOnlyPacketsActive,
                   wl, nworkers, ctxDone, nextPkt, handled, dropped, assigned, made, imp, panicked>>

\* the default handler returns; the deferred Unlock releases pktQueueLock
HandlePacketReturn(t) ==
    /\ pc[t] = "hpDefault"
    /\ pktQueueLock' = NoOne
    /\ pc' = [pc EXCEPT ![t] = "idle"]
    /\ running' = running \ {t}
    /\ UNCHANGED <<conn, conns, dnsConns, pushed, saved, lastCall, chans, mutex, infoOnlyPacketsActive,
                   wl, nworkers, ctxDone, nextPkt, handled, dropped, assigned, made, imp, panicked>>

(***************************************************************************)
(* The handler API.  The caller holds the connection mutex: it is the      *)
(* owner thread between Lock and Unlock, or a worker inside the firewall   *)
(* handler.                                                                *)
(***************************************************************************)
InUserCode(t) == mutex = t /\ pc[t] \in {"locked", "custom"}

FirstUnborn == <<"worker", nworkers + 1>>

\* SetFirewallHandler sets the firewall handler and starts a worker.
SetFirewallHandler(t, handler, lim) ==
    /\ InUserCode(t)
    /\ IF handler = NilHandler
         THEN UNCHANGED <<conn, chans, pc, nworkers>>
         ELSE /\ pktQueueLock = NoOne
              /\ (conn.pktQueueActive /\ conn.firewallHandler # NilHandler) \/ MayAttach(lim)
              /\ chans' = IF conn.pktQueueActive THEN chans ELSE Append(chans, NewChan)
              /\ conn' = [conn EXCEPT
                            !.pktQueue = IF conn.pktQueueActive THEN @ ELSE Len(chans) + 1,
                            !.pktQueueActive = TRUE,
                            !.firewallHandler = handler]
              /\ IF conn.firewallHandler = NilHandler
                   THEN /\ nworkers' = nworkers + 1
                        /\ pc' = [pc EXCEPT ![FirstUnborn] = "start"]
                   ELSE UNCHANGED <<nworkers, pc>>
    /\ UNCHANGED <<conns, dnsConns, pushed, saved, lastCall, mutex, pktQueueLock, infoOnlyPacketsActive,
                   wl, ctxDone, nextPkt, handled, running, dropped, assigned, made, imp, panicked>>

\* UpdateFirewallHandler sets the firewall handler if it is already set.
UpdateFirewallHandler(t, handler) ==
    /\ InUserCode(t)
    /\ conn' = IF handler # NilHandler /\ conn.firewallHandler # NilHandler
                 THEN [conn EXCEPT !.firewallHandler = handler]
                 ELSE conn
    /\ UNCHANGED <<conns, dnsConns, pushed, saved, lastCall, assigned, made, imp>>
    /\ UNCHANGED pipeVars

\* mutant: the queue stays marked active after it was closed
StopFirewallHandlerStaysActive(t) ==
    /\ InUserCode(t)
    /\ pktQueueLock = NoOne
    /\ IF conn.pktQueueActive
         THEN IF conn.pktQueue = 0 \/ chans[conn.pktQueue].closed
                THEN /\ panicked' = TRUE
                     /\ UNCHANGED chans
                ELSE /\ chans' = [chans EXCEPT ![conn.pktQueue].closed = TRUE]
                     /\ UNCHANGED panicked
         ELSE UNCHANGED <<chans, panicked>>
    /\ conn' = [conn EXCEPT !.firewallHandler = NilHandler,
                            !.pktQueue = 0]
    /\ UNCHANGED <<conns, dnsConns, pushed, saved, lastCall, mutex, pktQueueLock, infoOnlyPacketsActive,
                   pc, wl, nworkers, ctxDone, nextPkt, handled, running, dropped, assigned, made, imp>>

\* StopFirewallHandler unsets the firewall handler and stops the handler worker.
StopFirewallHandler(t) ==
    /\ InUserCode(t)
    /\ pktQueueLock = NoOne
    /\ IF conn.pktQueueActive
         THEN IF conn.pktQueue = 0 \/ chans[conn.pktQueue].closed
                THEN /\ panicked' = TRUE
                     /\ UNCHANGED chans
                ELSE /\ chans' = [chans EXCEPT ![conn.pktQueue].closed = TRUE]
                     /\ UNCHANGED panicked
         ELSE UNCHANGED <<chans, panicked>>
    /\ conn' = [conn EXCEPT !.firewallHandler = NilHandler,
                            !.pktQueueActive = FALSE,
                            !.pktQueue = 0]
    /\ UNCHANGED <<conns, dnsConns, pushed, saved, lastCall, mutex, pktQueueLock, infoOnlyPacketsActive,
                   pc, wl, nworkers, ctxDone, nextPkt, handled, running, dropped, assigned, made, imp>>

\* SaveWhenFinished marks the connection for saving it after the firewall handler.
SaveWhenFinished(t) ==
    /\ InUserCode(t)
    /\ conn' = [conn EXCEPT !.saveWhenFinished = TRUE]
    /\ UNCHANGED <<conns, dnsConns, pushed, saved, lastCall, assigned, made, imp>>
    /\ UNCHANGED pipeVars


(***************************************************************************)
(* packetHandlerWorker sequentially handles queued packets.                *)
(***************************************************************************)
NewLocals == [q |-> 0, seq |-> 0, pkt |-> NilPkt, info |-> NilPkt, stage |-> "main"]
\* the packet a worker hands to packetHandlerHandleConn
CurPkt(w) == IF wl[w].stage = "info" THEN wl[w].info ELSE wl[w].pkt

\* lines 888-893: copy conn.pktQueue under pktQueueLock
WorkerStart(w) ==
    /\ pc[w] = "start" /\ pktQueueLock = NoOne
    /\ wl' = [wl EXCEPT ![w].q = conn.pktQueue]
    /\ pc' = [pc EXCEPT ![w] = "dequeue"]
    /\ UNCHANGED <<conn, conns, dnsConns, pushed, saved, lastCall, chans, mutex, pktQueueLock,
                   infoOnlyPacketsActive, nworkers, ctxDone, nextPkt, handled, running,
                   dropped, assigned, made, imp, panicked>>

\* lines 899-904: case pkt := <-pktQueue
WorkerDequeue(w) ==
    /\ pc[w] = "dequeue" /\ CanRecv(wl[w].q)
    /\ LET pkt == RecvValue(wl[w].q)
       IN  /\ chans' = AfterRecv(wl[w].q)
           /\ IF pkt = NilPkt
                THEN /\ pc' = [pc EXCEPT ![w] = "done"]
                     /\ wl' = [wl EXCEPT ![w] = NewLocals]
                ELSE /\ pc' = [pc EXCEPT ![w] = "reorder"]
                     /\ wl' = [wl EXCEPT ![w].pkt = pkt, ![w].seq = @ + 1]
    /\ UNCHANGED <<conn, conns, dnsConns, pushed, saved, lastCall, mutex, pktQueueLock,
                   infoOnlyPacketsActive, nworkers, ctxDone, nextPkt, handled, running,
                   dropped, assigned, made, imp, panicked>>

\* mutant: the worker closes its queue when it returns
WorkerCtxDoneCloses(w) ==
    /\ pc[w] = "dequeue" /\ ctxDone
    /\ pc' = [pc EXCEPT ![w] = "done"]
    /\ wl' = [wl EXCEPT ![w] = NewLocals]
    /\ chans' = IF wl[w].q # 0 THEN [chans EXCEPT ![wl[w].q].closed = TRUE] ELSE chans
    /\ UNCHANGED <<conn, conns, dnsConns, pushed, saved, lastCall, mutex, pktQueueLock,
                   infoOnlyPacketsActive, nworkers, ctxDone, nextPkt, handled,
                   running, dropped, assigned, made, imp, panicked>>

\* mutant: the worker empties its queue before it returns
WorkerCtxDoneDrains(w) ==
    /\ pc[w] = "dequeue" /\ ctxDone
    /\ pc' = [pc EXCEPT ![w] = "done"]
    /\ wl' = [wl EXCEPT ![w] = NewLocals]
    /\ chans' = IF wl[w].q # 0 THEN [chans EXCEPT ![wl[w].q].buf = <<>>] ELSE chans
    /\ UNCHANGED <<conn, conns, dnsConns, pushed, saved, lastCall, mutex, pktQueueLock,
                   infoOnlyPacketsActive, nworkers, ctxDone, nextPkt, handled,
                   running, dropped, assigned, made, imp, panicked>>

\* lines 955-956: case <-ctx.Done()
WorkerCtxDone(w) ==
    /\ pc[w] = "dequeue" /\ ctxDone
    /\ pc' = [pc EXCEPT ![w] = "done"]
    /\ wl' = [wl EXCEPT ![w] = NewLocals]
    /\ UNCHANGED <<conn, conns, dnsConns, pushed, saved, lastCall, chans, mutex, pktQueueLock,
                   infoOnlyPacketsActive, nworkers, ctxDone, nextPkt, handled,
                   running, dropped, assigned, made, imp, panicked>>

\* mutant: every info-only packet sets the flag
WorkerReorderAnySeq(w) ==
    /\ pc[w] = "reorder"
    /\ LET pkt == wl[w].pkt
       IN  CASE pkt.infoOnly ->
                  /\ infoOnlyPacketsActive' = TRUE
                  /\ pc' = [pc EXCEPT ![w] = "lock"]
             [] ~pkt.infoOnly /\ wl[w].seq <= 1
                  /\ (pkt.expectInfo \/ (infoOnlyPacketsActive /\ IsOutbound(pkt))) ->
                  /\ pc' = [pc EXCEPT ![w] = "select"]
                  /\ UNCHANGED infoOnlyPacketsActive
             [] OTHER ->
                  /\ pc' = [pc EXCEPT ![w] = "lock"]
                  /\ UNCHANGED infoOnlyPacketsActive
    /\ UNCHANGED <<conn, conns, dnsConns, pushed, saved, lastCall, chans, mutex, pktQueueLock, wl,
                   nworkers, ctxDone, nextPkt, handled, running, dropped, assigned, made, imp, panicked>>

\* lines 907-926: the switch that decides whether to wait for an info-only packet
WorkerReorder(w) ==
    /\ pc[w] = "reorder"
    /\ LET pkt == wl[w].pkt
       IN  CASE wl[w].seq > 1 ->
                  /\ pc' = [pc EXCEPT ![w] = "lock"]
                  /\ UNCHANGED infoOnlyPacketsActive
             [] wl[w].seq <= 1 /\ pkt.infoOnly ->
                  /\ infoOnlyPacketsActive' = TRUE
                  /\ pc' = [pc EXCEPT ![w] = "lock"]
             [] wl[w].seq <= 1 /\ ~pkt.infoOnly
                  /\ (pkt.expectInfo \/ (infoOnlyPacketsActive /\ IsOutbound(pkt))) ->
                  /\ pc' = [pc EXCEPT ![w] = "select"]
                  /\ UNCHANGED infoOnlyPacketsActive
             [] OTHER ->
                  /\ pc' = [pc EXCEPT ![w] = "lock"]
                  /\ UNCHANGED infoOnlyPacketsActive
    /\ UNCHANGED <<conn, conns, dnsConns, pushed, saved, lastCall, chans, mutex, pktQueueLock, wl,
                   nworkers, ctxDone, nextPkt, handled, running, dropped, assigned, made, imp, panicked>>

\* lines 930-936: case infoPkt := <-pktQueue
RecvInfo(w) ==
    LET infoPkt == RecvValue(wl[w].q)
    IN  /\ chans' = AfterRecv(wl[w].q)
        /\ pc' = [pc EXCEPT ![w] = "lock"]
        /\ wl' = IF infoPkt # NilPkt
                   THEN [wl EXCEPT ![w].info = infoPkt, ![w].stage = "info"]
                   ELSE wl

\* line 929: the select is entered; a ready receive is taken at once
WorkerSelect(w) ==
    /\ pc[w] = "select"
    /\ IF CanRecv(wl[w].q)
         THEN RecvInfo(w)
         ELSE /\ pc' = [pc EXCEPT ![w] = "waiting"]
              /\ UNCHANGED <<chans, wl>>
    /\ UNCHANGED <<conn, conns, dnsConns, pushed, saved, lastCall, mutex, pktQueueLock,
                   infoOnlyPacketsActive, nworkers, ctxDone, nextPkt, handled, running,
                   dropped, assigned, made, imp, panicked>>

\* a packet arrives (or the queue is closed) while the worker waits
WorkerWaitRecv(w) ==
    /\ pc[w] = "waiting" /\ CanRecv(wl[w].q)
    /\ RecvInfo(w)
    /\ UNCHANGED <<conn, conns, dnsConns, pushed, saved, lastCall, mutex, pktQueueLock,
                   infoOnlyPacketsActive, nworkers, ctxDone, nextPkt, handled, running,
                   dropped, assigned, made, imp, panicked>>

\* mutant: after the wait the worker goes back to the dequeue
WorkerWaitTimeoutLoses(w) ==
    /\ pc[w] = "waiting"
    /\ pc' = [pc EXCEPT ![w] = "dequeue"]
    /\ UNCHANGED <<conn, conns, dnsConns, pushed, saved, lastCall, chans, mutex, pktQueueLock,
                   infoOnlyPacketsActive, wl, nworkers, ctxDone, nextPkt, handled,
                   running, dropped, assigned, made, imp, panicked>>

\* line 937: case <-time.After(1 * time.Millisecond)
WorkerWaitTimeout(w) ==
    /\ pc[w] = "waiting"
    /\ pc' = [pc EXCEPT ![w] = "lock"]
    /\ UNCHANGED <<conn, conns, dnsConns, pushed, saved, lastCall, chans, mutex, pktQueueLock,
                   infoOnlyPacketsActive, wl, nworkers, ctxDone, nextPkt, handled,
                   running, dropped, assigned, made, imp, panicked>>

\* packetHandlerHandleConn, lines 962-989: lock the connection, pick the handler
HandleConnLock(w) ==
    /\ pc[w] = "lock" /\ mutex = NoOne
    /\ mutex' = w
    /\ running' = running \cup {w}
    /\ IF conn.firewallHandler = NilHandler
         THEN /\ pc' = [pc EXCEPT ![w] = "default"]
              /\ handled' = Append(handled, Handling(CurPkt(w), "default", "worker"))
         ELSE /\ pc' = [pc EXCEPT ![w] = "custom"]
              /\ handled' = Append(handled, Handling(CurPkt(w), "custom", "worker"))
    /\ UNCHANGED <<conn, conns, dnsConns, pushed, saved, lastCall, chans, pktQueueLock,
                   infoOnlyPacketsActive, wl, nworkers, ctxDone, nextPkt, dropped, assigned, made, imp,
                   panicked>>

\* mutant: the pulled-forward packet is not counted
AfterHandleNoCount(w) ==
    IF wl[w].stage = "info"
      THEN /\ pc' = [pc EXCEPT ![w] = "lock"]
           /\ wl' = [wl EXCEPT ![w].stage = "main", ![w].info = NilPkt]
      ELSE /\ pc' = [pc EXCEPT ![w] = "dequeue"]
           /\ wl' = [wl EXCEPT ![w].pkt = NilPkt]

\* back in packetHandlerWorker after packetHandlerHandleConn returned
AfterHandle(w) ==
    IF wl[w].stage = "info"
      THEN /\ pc' = [pc EXCEPT ![w] = "lock"]
           /\ wl' = [wl EXCEPT ![w].stage = "main", ![w].info = NilPkt, ![w].seq = @ + 1]
      ELSE /\ pc' = [pc EXCEPT ![w] = "dequeue"]
           /\ wl' = [wl EXCEPT ![w].pkt = NilPkt]

\* lines 969-977: the default handler returns, the connection is unlocked
HandleConnDefaultReturn(w) ==
    /\ pc[w] = "default"
    /\ mutex' = NoOne
    /\ running' = running \ {w}
    /\ AfterHandle(w)
    /\ UNCHANGED <<conn, conns, dnsConns, pushed, saved, lastCall, chans, pktQueueLock,
                   infoOnlyPacketsActive, nworkers, ctxDone, nextPkt, handled, dropped,
                   assigned, made, imp, panicked>>

\* lines 989-1011: the firewall handler returns; save if asked to; unlock
HandleConnCustomReturn(w) ==
    /\ pc[w] = "custom"
    /\ mutex' = NoOne
    /\ running' = running \ {w}
    /\ AfterHandle(w)
    /\ IF conn.saveWhenFinished
         THEN Save([conn EXCEPT !.saveWhenFinished = FALSE])
         ELSE UNCHANGED <<conn, conns, dnsConns, pushed, saved, lastCall>>
    /\ UNCHANGED <<chans, pktQueueLock, infoOnlyPacketsActive, nworkers, ctxDone,
                   nextPkt, handled, dropped, assigned, made, imp, panicked>>

\* the module shuts down: the workers' context is cancelled
CancelContext ==
    /\ ~ctxDone
    /\ ctxDone' = TRUE
    /\ UNCHANGED <<conn, conns, dnsConns, pushed, saved, lastCall, chans, mutex, pktQueueLock,
                   infoOnlyPacketsActive, pc, wl, nworkers, nextPkt, handled, running,
                   dropped, assigned, made, imp, panicked>>

(***************************************************************************)
(* The owner thread: conn.Lock() ... conn.Unlock() around API calls.       *)
(***************************************************************************)
OwnerLock ==
    /\ pc[Owner] = "idle" /\ mutex = NoOne
    /\ mutex' = Owner
    /\ pc' = [pc EXCEPT ![Owner] = "locked"]
    /\ UNCHANGED <<conn, conns, dnsConns, pushed, saved, lastCall, chans, pktQueueLock,
                   infoOnlyPacketsActive, wl, nworkers, ctxDone, nextPkt, handled,
                   running, dropped, assigned, made, imp, panicked>>

OwnerUnlock ==
    /\ pc[Owner] = "locked" /\ mutex = Owner
    /\ mutex' = NoOne
    /\ pc' = [pc EXCEPT ![Owner] = "idle"]
    /\ UNCHANGED <<conn, conns, dnsConns, pushed, saved, lastCall, chans, pktQueueLock,
                   infoOnlyPacketsActive, wl, nworkers, ctxDone, nextPkt, handled,
                   running, dropped, assigned, made, imp, panicked>>

\* conn.GatherConnectionInfo(pkt) called by the thread that holds the connection
\* (it is called for the packets of IP flows)
CallGather(t, pkt, env) ==
    /\ InUserCode(t)
    /\ conn.Type = IPConnection
    /\ conn' = GatherConnectionInfo(conn, pkt, env)
    /\ UNCHANGED <<conns, dnsConns, pushed, saved, lastCall, assigned, made, imp>>
    /\ UNCHANGED pipeVars

\* conn.Save() called by the thread that holds the connection
CallSave(t) ==
    /\ InUserCode(t)
    /\ Save(conn)
    /\ UNCHANGED <<assigned, made, imp>>
    /\ UNCHANGED pipeVars

\* conn.delete() called by the thread that holds the connection
CallDelete(t) ==
    /\ InUserCode(t)
    /\ ~conn.deleted
    /\ Delete(conn)
    /\ UNCHANGED <<assigned, made, imp>>
    /\ UNCHANGED pipeVars

\* no import request was made yet
NoImport == [phase |-> "idle", n |-> 0]

(***************************************************************************)
(* The queue and its workers.                                              *)
(***************************************************************************)
InitFrom(c, m) ==
    /\ conn = c
    /\ conns = IF c.Type = IPConnection THEN {c.ID} ELSE {}
    /\ dnsConns = {}
    /\ pushed = {}
    /\ saved = {}
    /\ lastCall = [op |-> "none", complete |-> FALSE]
    /\ chans = <<>>
    /\ mutex = NoOne
    /\ pktQueueLock = NoOne
    /\ infoOnlyPacketsActive = FALSE
    /\ pc = [t \in Threads |-> IF t \in Workers THEN "unborn" ELSE "idle"]
    /\ wl = [w \in Workers |-> NewLocals]
    /\ nworkers = 0
    /\ ctxDone = FALSE
    /\ nextPkt = 0
    /\ handled = <<>>
    /\ running = {}
    /\ dropped = {}
    /\ assigned = {}
    /\ made = m
    /\ imp = NoImport
    /\ panicked = FALSE

InitPipe(c) == InitFrom(c, PacketInputs(SomeNow, SomeNow))

Init == InitPipe(NewIncompleteConnection(4711, SomeNow, SomeNow))

Next ==
    \/ \E t \in Callers, k \in PacketKinds : HandlePacketQueue(t, k, PipeLim)
    \/ \E t \in Callers, k \in PacketKinds : HandlePacketDefault(t, k, PipeLim)
    \/ \E t \in Callers : HandlePacketReturn(t)
    \/ OwnerLock
    \/ OwnerUnlock
    \/ \E t \in Threads, h \in Handlers \cup {NilHandler} : SetFirewallHandler(t, h, PipeLim)
    \/ \E t \in Threads, h \in Handlers \cup {NilHandler} : UpdateFirewallHandler(t, h)
    \/ \E t \in Threads : StopFirewallHandler(t)
    \/ \E w \in Workers : WorkerStart(w)
    \/ \E w \in Workers : WorkerDequeue(w)
    \/ \E w \in Workers : WorkerCtxDone(w)
    \/ \E w \in Workers : WorkerReorder(w)
    \/ \E w \in Workers : WorkerSelect(w)
    \/ \E w \in Workers : WorkerWaitRecv(w)
    \/ \E w \in Workers : WorkerWaitTimeout(w)
    \/ \E w \in Workers : HandleConnLock(w)
    \/ \E w \in Workers : HandleConnDefaultReturn(w)
    \/ \E w \in Workers : HandleConnCustomReturn(w)
    \/ CancelContext

Spec == Init /\ [][Next]_vars


(***************************************************************************)
(* Verdict calls made by the thread that holds the connection.             *)
(***************************************************************************)
VerdictOps == {"Accept", "Block", "Drop", "Deny", "Failed", "SetVerdict",
               "SetVerdictDirectly"}
Reasons == {"r1", "r2"}
OptionKeys == {"", "filter/defaultAction"}
Contexts == {"nil", "ctx1"}

\* the verdict a call asks for
AskedVerdict(c, op, v) ==
    CASE op = "Accept" -> VerdictAccept
      [] op = "Block" -> VerdictBlock
      [] op = "Drop" -> VerdictDrop
      [] op = "Failed" -> VerdictFailed
      [] op = "Deny" -> IF c.Inbound THEN VerdictDrop ELSE VerdictBlock
      [] OTHER -> v

CallVerdict(t, op, v, reason, key, ctx) ==
    /\ InUserCode(t)
    /\ conn' = CASE op = "Accept" -> AcceptWithContext(conn, reason, key, ctx)
                 [] op = "Block" -> BlockWithContext(conn, reason, key, ctx)
                 [] op = "Drop" -> DropWithContext(conn, reason, key, ctx)
                 [] op = "Deny" -> DenyWithContext(conn, reason, key, ctx)
                 [] op = "Failed" -> FailedWithContext(conn, reason, key, ctx)
                 [] op = "SetVerdict" -> SetVerdict(conn, v, reason, key, ctx)
                 [] OTHER -> SetVerdictDirectly(conn, v)
    /\ assigned' = assigned \cup {AskedVerdict(conn, op, v)}
    /\ UNCHANGED <<made, imp>>
    /\ UNCHANGED <<conns, dnsConns, pushed, saved, lastCall>>
    /\ UNCHANGED pipeVars

(***************************************************************************)
(* The verdict calls on a Connection, before and after its process and     *)
(* direction are known.                                                    *)
(***************************************************************************)
VerdictEnvs ==
    { e \in GatherEnvs :
        /\ e.remoteScope = "Global" /\ e.pid = 4711
        /\ e.proc \in {NilProcess, MkProcess(0, TRUE, FALSE), MkProcess(0, FALSE, FALSE)}
        /\ e.domain = "" /\ ~e.portal
        /\ e.mayHistory /\ e.mayBW /\ e.enableHistory }

InitVerdict == \E pid \in Pids : InitPipe(NewIncompleteConnection(pid, SomeNow, SomeNow))

NextVerdict ==
    \/ OwnerLock
    \/ OwnerUnlock
    \/ \E env \in VerdictEnvs : CallGather(Owner, MkPacket(1, PlainKind), env)
    \/ \E op \in VerdictOps \ {"SetVerdict", "SetVerdictDirectly"}, r \in Reasons,
          k \in OptionKeys, x \in Contexts :
            CallVerdict(Owner, op, VerdictUndecided, r, k, x)
    \/ \E v \in Verdicts, r \in Reasons, k \in OptionKeys, x \in Contexts :
            CallVerdict(Owner, "SetVerdict", v, r, k, x)
    \/ \E v \in Verdicts : CallVerdict(Owner, "SetVerdictDirectly", v, "", "", "nil")

SpecVerdict == InitVerdict /\ [][NextVerdict]_vars


(***************************************************************************)
(* Deny and Accept after other verdicts.  Each kind of call gives its own  *)
(* reason, so that Reason.Msg tells which call was the last one.           *)
(***************************************************************************)
DenyStep(k, x) == CallVerdict(Owner, "Deny", VerdictUndecided, "deny", k, x)
AcceptStep(k, x) == CallVerdict(Owner, "Accept", VerdictUndecided, "accept", k, x)

NextReason ==
    \/ OwnerLock
    \/ OwnerUnlock
    \/ \E env \in VerdictEnvs : CallGather(Owner, MkPacket(1, PlainKind), env)
    \/ \E k \in OptionKeys, x \in Contexts : DenyStep(k, x)
    \/ \E k \in OptionKeys, x \in Contexts : AcceptStep(k, x)
    \/ \E op \in {"Block", "Drop", "Failed"}, k \in OptionKeys :
          CallVerdict(Owner, op, VerdictUndecided, "other", k, "nil")

SpecReason == InitVerdict /\ [][NextReason]_vars

(***************************************************************************)
(* The life of a Connection in the hands of the thread that holds it:      *)
(* enrichment with every answer of the collaborators, Save, delete,        *)
(* verdict calls, attaching and detaching a handler.                       *)
(***************************************************************************)
LifeEnvs ==
    { e \in GatherEnvs :
        /\ e.remoteScope = "Global"
        /\ e.proc \in {NilProcess, MkProcess(0, TRUE, FALSE), MkProcess(0, FALSE, FALSE)}
        /\ e.mayHistory /\ e.mayBW /\ e.enableHistory }
LifeLim == [pkts |-> 0, attach |-> MaxLifeEvents, events |-> MaxLifeEvents]
LifeKinds == {k \in PacketKinds : ~k.expectInfo /\ ~k.inbound}

InitLife ==
    \/ \E pid \in Pids : InitPipe(NewIncompleteConnection(pid, SomeNow, SomeNow))
    \/ \E hp \in BOOLEAN :
         InitFrom(NewConnectionFromDNSRequest("example.com", NoEntry, SomeNow, 4711, hp),
                  DNSInputs(NoEntry, SomeNow, 4711))

NextLife ==
    \/ OwnerLock
    \/ OwnerUnlock
    \/ \E k \in LifeKinds, env \in LifeEnvs : CallGather(Owner, MkPacket(1, k), env)
    \/ CallSave(Owner)
    \/ CallDelete(Owner)
    \/ CallVerdict(Owner, "Deny", VerdictUndecided, "r1", "", "nil")
    \/ SetFirewallHandler(Owner, "h1", LifeLim)
    \/ StopFirewallHandler(Owner)

SpecLife == InitLife /\ [][NextLife]_vars

(***************************************************************************)
(* Saving on behalf of the firewall handler: the queue and one worker,     *)
(* with a handler that gathers the connection's data and asks for a Save.  *)
(***************************************************************************)
SaveLim == [pkts |-> MaxSaveEvents, attach |-> 1, events |-> MaxSaveEvents]

NextSave ==
    \/ OwnerLock
    \/ OwnerUnlock
    \/ \E t \in Threads : SetFirewallHandler(t, "h1", SaveLim)
    \/ \E t \in Threads : StopFirewallHandler(t)
    \/ \E t \in Threads : SaveWhenFinished(t)
    \/ \E t \in Threads : CallSave(t)
    \/ \E t \in Threads : CallDelete(t)
    \/ \E env \in PipeEnvs : CallGather(Owner, MkPacket(1, PlainKind), env)
    \/ \E w \in Workers, env \in PipeEnvs : CallGather(w, CurPkt(w), env)
    \/ \E t \in Callers, k \in LifeKinds : HandlePacketQueue(t, k, SaveLim)
    \/ \E t \in Callers, k \in LifeKinds : HandlePacketDefault(t, k, SaveLim)
    \/ \E t \in Callers : HandlePacketReturn(t)
    \/ \E w \in Workers : WorkerStart(w)
    \/ \E w \in Workers : WorkerDequeue(w)
    \/ \E w \in Workers : WorkerReorder(w)
    \/ \E w \in Workers : HandleConnLock(w)
    \/ \E w \in Workers : HandleConnDefaultReturn(w)
    \/ \E w \in Workers : HandleConnCustomReturn(w)

SpecSave == Init /\ [][NextSave]_vars

(***************************************************************************)
(* Queue overflow: more packets are offered than the queue holds.          *)
(***************************************************************************)
FloodLim == [pkts |-> MaxFlood, attach |-> 1, events |-> MaxFlood + 1]

\* the handler is attached before the flow's packets are offered
NextFlood ==
    \/ OwnerLock
    \/ OwnerUnlock
    \/ SetFirewallHandler(Owner, "h1", FloodLim)
    \/ \E t \in Callers : conn.pktQueueActive /\ HandlePacketQueue(t, PlainKind, FloodLim)
    \/ \E w \in Workers : WorkerStart(w)
    \/ \E w \in Workers : WorkerDequeue(w)
    \/ \E w \in Workers : WorkerReorder(w)
    \/ \E w \in Workers : HandleConnLock(w)
    \/ \E w \in Workers : HandleConnCustomReturn(w)

SpecFlood == Init /\ [][NextFlood]_vars

(***************************************************************************)
(* Attach, then detach: one attachment, no cancellation.  Every thread     *)
(* that can take a step eventually takes it: workers are scheduled,        *)
(* handlers return, the owner unlocks, and a worker that waits for the     *)
(* connection mutex gets it (sync.Mutex hands the lock to a waiter that    *)
(* starves).                                                               *)
(***************************************************************************)
DetachLim == [pkts |-> MaxDetachPkts, attach |-> 1, events |-> MaxDetachPkts + 1]

WorkerStep(w) ==
    \/ WorkerStart(w)
    \/ WorkerDequeue(w)
    \/ WorkerReorder(w)
    \/ WorkerSelect(w)
    \/ WorkerWaitRecv(w)
    \/ WorkerWaitTimeout(w)
    \/ HandleConnLock(w)
    \/ HandleConnDefaultReturn(w)
    \/ HandleConnCustomReturn(w)

NextDetach ==
    \/ OwnerLock
    \/ OwnerUnlock
    \/ \E t \in Threads : SetFirewallHandler(t, "h1", DetachLim)
    \/ \E t \in Threads : StopFirewallHandler(t)
    \/ \E t \in Callers, k \in PacketKinds : HandlePacketQueue(t, k, DetachLim)
    \/ \E t \in Callers, k \in PacketKinds : HandlePacketDefault(t, k, DetachLim)
    \/ \E t \in Callers : HandlePacketReturn(t)
    \/ \E w \in Workers : WorkerStep(w)

SpecDetach ==
    /\ Init
    /\ [][NextDetach]_vars
    /\ \A w \in Workers : WF_vars(WorkerStep(w))
    /\ \A w \in Workers : SF_vars(HandleConnLock(w))
    /\ \A t \in Callers : WF_vars(HandlePacketReturn(t))
    /\ WF_vars(OwnerUnlock)

(***************************************************************************)
(* Shutdown: the attach-then-detach behaviours, with the workers' context  *)
(* cancelled at any moment.  The scheduling is fair as above; a worker     *)
(* whose select has a ready case takes one.                                *)
(***************************************************************************)
WorkerRun(w) == WorkerStep(w) \/ WorkerCtxDone(w)

NextCancel ==
    \/ OwnerLock
    \/ OwnerUnlock
    \/ \E t \in Threads : SetFirewallHandler(t, "h1", DetachLim)
    \/ \E t \in Threads : StopFirewallHandler(t)
    \/ \E t \in Callers, k \in PacketKinds : HandlePacketQueue(t, k, DetachLim)
    \/ \E t \in Callers, k \in PacketKinds : HandlePacketDefault(t, k, DetachLim)
    \/ \E t \in Callers : HandlePacketReturn(t)
    \/ \E w \in Workers : WorkerRun(w)
    \/ CancelContext

SpecCancel ==
    /\ Init
    /\ [][NextCancel]_vars
    /\ \A w \in Workers : WF_vars(WorkerRun(w))
    /\ \A w \in Workers : SF_vars(HandleConnLock(w))
    /\ \A t \in Callers : WF_vars(HandlePacketReturn(t))
    /\ WF_vars(OwnerUnlock)

(***************************************************************************)
(* Construction.  A Connection is built from a packet or for a DNS         *)
(* request, from every input below, and is then used by its owner.  The    *)
(* clock reads a time later than tooOldTimestamp.                          *)
(***************************************************************************)
\* before the constructor ran there is no Connection
NilConn == [NewIncompleteConnection(UndefinedProcessID, 0, 0) EXCEPT !.Type = "none", !.ID = ""]
Built == made.kind # "none"

\* info.SeenAt of the packet, time.Now()
SeenAts == {0, tooOldTimestamp - 1, tooOldTimestamp, tooOldTimestamp + 1, SomeNow + 5}
Nows == {SomeNow, SomeNow + 1}
\* the entries GetDNSRequestConnection may find at the time now: with an
\* undefined, a special or a real PID, still open or ended 4, 3 or 0 seconds
\* ago, with or without its process
EntryPids == {UndefinedProcessID, -2, 9001}
Entries(now) ==
    {NoEntry} \cup
    UNION { { [ok |-> TRUE, PID |-> p, Ended |-> e, process |-> pr] :
                e \in {0, now - 4, now - 3, now},
                pr \in {NilProcess, MkProcess(p, TRUE, FALSE)} } : p \in EntryPids }
OsPid == 4711

\* conn := NewIncompleteConnection(pkt), which adds conn to the table conns
CreateFromPacket(pid, seenAt, now) ==
    /\ ~Built
    /\ conn' = NewIncompleteConnection(pid, seenAt, now)
    /\ conns' = conns \cup {ConnID}
    /\ made' = PacketInputs(seenAt, now)
    /\ UNCHANGED <<dnsConns, pushed, saved, lastCall, assigned, imp>>
    /\ UNCHANGED pipeVars

\* conn := NewConnectionFromDNSRequest(ctx, fqdn, cnames, connID, localIP, localPort)
CreateFromDNSRequest(entry, now, hasProfile) ==
    /\ ~Built
    /\ conn' = NewConnectionFromDNSRequest("example.com", entry, now, OsPid, hasProfile)
    /\ made' = DNSInputs(entry, now, OsPid)
    /\ UNCHANGED <<conns, dnsConns, pushed, saved, lastCall, assigned, imp>>
    /\ UNCHANGED pipeVars

InitCreate == InitFrom(NilConn, [kind |-> "none"])

NextCreate ==
    \/ \E pid \in Pids, seenAt \in SeenAts, now \in Nows : CreateFromPacket(pid, seenAt, now)
    \/ \E now \in Nows : \E entry \in Entries(now), hp \in BOOLEAN :
          CreateFromDNSRequest(entry, now, hp)
    \/ Built /\ OwnerLock
    \/ Built /\ OwnerUnlock
    \/ \E env \in PipeEnvs : Built /\ CallGather(Owner, MkPacket(1, PlainKind), env)
    \/ Built /\ CallSave(Owner)
    \/ Built /\ CallDelete(Owner)

SpecCreate == InitCreate /\ [][NextCreate]_vars

(***************************************************************************)
(* Properties.                                                             *)
(***************************************************************************)
MaxOf(S) == CHOOSE x \in S : \A y \in S : y <= x

\* C1: after any verdict calls, Verdict.Worst is the maximum (by severity) of
\* all verdicts ever assigned, and so Verdict.Worst >= Verdict.Firewall.
C1_WorstIsMaxAssigned ==
    assigned # {} =>
        /\ conn.Verdict.Worst = MaxOf(assigned)
        /\ conn.Verdict.Worst >= conn.Verdict.Firewall

\* C2: DataIsComplete is monotonic: no step of any operation takes it from
\* true to false.
C2_DataCompleteMonotonic == [][conn.dataComplete => conn'.dataComplete]_vars

\* a packet-built Connection that became complete, was saved, got a verdict
\* and was deleted
C2_CompleteThenUsed ==
    /\ conn.Type = IPConnection /\ conn.dataComplete
    /\ conn.keySet /\ conn.deleted
    /\ conn.Verdict.Firewall # VerdictUndecided
    /\ Len(chans) > 0 /\ ~conn.pktQueueActive

\* C3: every PushUpdate is made for a Connection whose dataComplete flag is
\* set, and a step taken on an incomplete Connection (Save among them) pushes
\* nothing and adds nothing to a registry table.
C3_PushOnlyWhenComplete ==
    [][ /\ \A p \in pushed' : p.complete
        /\ ~conn.dataComplete =>
              /\ pushed' = pushed
              /\ conns' \subseteq conns
              /\ dnsConns' \subseteq dnsConns ]_vars

\* Save was called on the incomplete and on the complete Connection, and both
\* Save and delete pushed
C3_SavedBothWays ==
    /\ saved = {FALSE, TRUE}
    /\ {p.by : p \in pushed} = {"Save", "delete"}

\* C4: at most PktQueueSize packets are buffered; a packet offered to a full
\* queue is dropped, the queue and the Connection stay as they are and the
\* caller returns.
OfferedToFull ==
    /\ nextPkt' = nextPkt + 1
    /\ conn.pktQueueActive
    /\ Len(chans[conn.pktQueue].buf) = PktQueueSize

C4_QueueBounded ==
    [][ /\ \A q \in DOMAIN chans' : Len(chans'[q].buf) <= PktQueueSize
        /\ OfferedToFull =>
              /\ dropped' = dropped \cup {nextPkt'}
              /\ chans' = chans
              /\ conn' = conn
              /\ pc' = pc /\ pktQueueLock' = pktQueueLock /\ mutex' = mutex
              /\ handled' = handled ]_vars

\* the queue is full and a packet has been dropped
C4_FullAndDropped ==
    /\ conn.pktQueueActive
    /\ Len(chans[conn.pktQueue].buf) = PktQueueSize
    /\ dropped # {}


\* C5: a Connection owns at most one worker: no two live workers read from
\* the same queue.
LiveOn(q) == {w \in Workers : pc[w] \notin {"unborn", "start", "done"} /\ wl[w].q = q}

C5_OneWorkerPerQueue == \A q \in DOMAIN chans : Cardinality(LiveOn(q)) <= 1

\* C6: SetFirewallHandler then StopFirewallHandler leaves no handler, no
\* queue, no active flag, and the worker that was spawned eventually exits
\* without a cancelled context.
Detached == Len(chans) = 1 /\ chans[1].closed

C6_DetachRestores ==
    /\ [](Detached => /\ conn.firewallHandler = NilHandler
                      /\ conn.pktQueue = 0
                      /\ ~conn.pktQueueActive)
    /\ (Detached ~> \A w \in Workers : pc[w] \in {"unborn", "done"})

\* C7: only StopFirewallHandler closes a queue, and a worker returns exactly
\* when its receive yields nil (the queue is closed and drained) or, at the
\* dequeue, when its context is done.
C7_OnlyStopCloses ==
    [][ /\ (\E q \in DOMAIN chans : chans'[q].closed /\ ~chans[q].closed)
            => \E t \in Threads : StopFirewallHandler(t)
        /\ \A w \in Workers :
             /\ (pc[w] # "done" /\ pc'[w] = "done") =>
                   /\ pc[w] = "dequeue"
                   /\ ctxDone \/ (wl[w].q # 0 /\ chans[wl[w].q].closed
                                              /\ chans[wl[w].q].buf = <<>>)
             /\ (pc[w] = "dequeue" /\ pc'[w] # "dequeue" /\ wl[w].q # 0
                   /\ chans[wl[w].q].closed /\ chans[wl[w].q].buf = <<>>)
                   => pc'[w] = "done" ]_vars

\* a worker returned on the closed queue, without cancellation, after it
\* had handled a packet
C7_WorkerSawClose ==
    /\ ~ctxDone
    /\ \E w \in Workers : pc[w] = "done"
    /\ \E i \in DOMAIN handled : handled[i].via = "worker"
    /\ \E q \in DOMAIN chans : chans[q].closed

\* C8: the workers handle the packets of a Connection in the order they were
\* offered, except that an info-only packet may be handled before a packet
\* offered earlier: a packet that is not info-only is never handled before
\* a packet offered earlier.
ByWorker == SelectSeq(handled, LAMBDA h : h.via = "worker")

C8_FifoButInfoFirst ==
    \A i, j \in DOMAIN ByWorker :
        i < j => ByWorker[i].id < ByWorker[j].id \/ ByWorker[i].infoOnly

\* C9: whoever runs the default handler holds the connection mutex.
C9_DefaultHandlerLocked ==
    \A t \in Threads : pc[t] \in {"hpDefault", "default"} => mutex = t

\* C10: no two handler invocations for the Connection run at the same time.
C10_OneHandlerAtATime == Cardinality(running) <= 1


\* C11 (as amended): a worker that returns leaves the queue and the handled
\* packets as they are (it does not drain); once the context is done, a
\* worker at its dequeue point eventually returns; and a worker at its
\* dequeue point on a queue that StopFirewallHandler closed eventually
\* returns.
AtClosedQueue(w) == pc[w] = "dequeue" /\ wl[w].q # 0 /\ chans[wl[w].q].closed

C11_CancelOrCloseEndsWorker ==
    /\ [][\A w \in Workers :
            (pc[w] # "done" /\ pc'[w] = "done") => chans' = chans /\ handled' = handled]_vars
    /\ \A w \in Workers : (ctxDone /\ pc[w] = "dequeue") ~> (pc[w] = "done")
    /\ \A w \in Workers : AtClosedQueue(w) ~> (pc[w] = "done")

\* every worker returned on the cancelled context while a packet was still
\* buffered in the open queue
C11_ReturnedLeavingPackets ==
    /\ ctxDone
    /\ \E w \in Workers : pc[w] = "done"
    /\ \A w \in Workers : pc[w] \in {"unborn", "done"}
    /\ conn.pktQueueActive
    /\ chans[conn.pktQueue].buf # <<>>

\* C11 (as stated): once the context is done, a worker at its dequeue point
\* returns and handles no packet that is still buffered.
C11_NoDequeueAfterCancel ==
    [][\A w \in Workers :
         (ctxDone /\ pc[w] = "dequeue" /\ pc'[w] # "dequeue") => pc'[w] = "done"]_vars


\* C12: after every Save of a complete Connection, the Connection is in
\* exactly one registry table, the one of its Type, and carries the key made
\* of the PID of its process, its scope tag and its ID; and no ID is ever in
\* both tables.
InItsTable(c) ==
    IF c.Type = DNSRequest
      THEN c.ID \in dnsConns /\ c.ID \notin conns
      ELSE c.ID \in conns /\ c.ID \notin dnsConns

C12_SavedInOneTable ==
    /\ (lastCall.op = "Save" /\ lastCall.complete) =>
          /\ InItsTable(conn)
          /\ conn.keySet
          /\ conn.key = makeKey(conn.process.Pid,
                                IF conn.Type = DNSRequest THEN dbScopeDNS ELSE dbScopeIP,
                                conn.ID)
    /\ conns \cap dnsConns = {}

\* C13: delete removes the Connection from the table of its Type and leaves
\* the other table as it is, marks the record deleted, and pushes an update
\* exactly when the Connection is complete: deleting an incomplete
\* Connection pushes nothing.
DeleteStep == ~conn.deleted /\ conn'.deleted

C13_DeleteRemovesAndPushesIfComplete ==
    [][ DeleteStep =>
          /\ conn' = [conn EXCEPT !.deleted = TRUE]
          /\ IF conn.Type = IPConnection
               THEN conns' = conns \ {conn.ID} /\ dnsConns' = dnsConns
               ELSE dnsConns' = dnsConns \ {conn.ID} /\ conns' = conns
          /\ IF conn.dataComplete
               THEN pushed' = pushed \cup {[by |-> "delete", complete |-> TRUE]}
               ELSE pushed' = pushed ]_vars

\* an incomplete Connection built from a packet was deleted: it left the
\* table it was in and nothing was pushed
C13_DeletedIncomplete ==
    /\ lastCall.op = "delete" /\ ~lastCall.complete
    /\ conn.deleted /\ conn.Type = IPConnection
    /\ conn.ID \notin conns
    /\ pushed = {}

\* C14: Deny (DenyWithContext) leaves Verdict.Firewall at Drop when the
\* Connection is inbound and at Block when it is outbound, whatever the
\* verdict was before.
C14_DenyByDirection ==
    [][ \A k \in OptionKeys, x \in Contexts :
          DenyStep(k, x) =>
             conn'.Verdict.Firewall = IF conn.Inbound THEN VerdictDrop ELSE VerdictBlock ]_vars

\* Deny was the last verdict call on an inbound Connection that had been
\* accepted and had failed before
C14_DeniedInboundAfterOthers ==
    /\ conn.Reason.Msg = "deny"
    /\ conn.Inbound
    /\ conn.Verdict.Firewall = VerdictDrop
    /\ {VerdictAccept, VerdictFailed} \subseteq assigned

\* C15: after Accept was called, calling Accept again with the same
\* arguments leaves Reason (Msg, OptionKey, Profile, Context) as the first
\* call left it, whatever the Connection was before.
C15_AcceptTwiceSameReason ==
    [][ \A k \in OptionKeys, x \in Contexts :
          AcceptStep(k, x) =>
             AcceptWithContext(conn', "accept", k, x).Reason = conn'.Reason ]_vars

\* Accept was the last verdict call, with an option key and a context, on a
\* Connection whose process has a profile and that had been denied before
C15_AcceptedWithKeyAfterDeny ==
    /\ conn.Reason.Msg = "accept"
    /\ conn.Reason.OptionKey # "" /\ conn.Reason.Profile # ""
    /\ conn.Reason.Context # "nil"
    /\ conn.Verdict.Firewall = VerdictAccept
    /\ assigned \cap {VerdictBlock, VerdictDrop} # {}

\* C16: a Connection built from a packet has Started >= tooOldTimestamp
\* (2020-01-01T00:00:00Z): Started is the current time when the packet's
\* SeenAt is earlier than that, and the packet's SeenAt otherwise.
C16_StartedNotTooOld ==
    made.kind = "packet" =>
        /\ conn.Started >= tooOldTimestamp
        /\ made.seenAt < tooOldTimestamp => conn.Started = made.now
        /\ made.seenAt >= tooOldTimestamp => conn.Started = made.seenAt

\* a packet seen one second before 2020 built a Connection that then became
\* complete
C16_ClampedToNow ==
    /\ made.kind = "packet"
    /\ made.seenAt = tooOldTimestamp - 1
    /\ conn.Started = made.now
    /\ conn.dataComplete

\* C17 (as amended): the DNS-request Connection inherits the PID of the
\* entry found for it, and the entry's process when it has one, if and only
\* if the entry is live (Ended is 0 or within the last 3 seconds) and its
\* PID is not negative; otherwise the PID is the one of the OS state tables
\* and the process is the one found for that PID.
Live(e, now) == e.ok /\ (e.Ended = 0 \/ e.Ended >= now - 3)

InheritedFrom(e) ==
    /\ conn.PID = e.PID
    /\ ~e.process.nil => conn.process = e.process

FromStateTables(e, osPid) ==
    /\ conn.PID = osPid
    /\ conn.process.Pid = osPid
    /\ conn.PID # e.PID

C17_InheritsLiveIdentified ==
    made.kind = "dns" =>
        IF Live(made.entry, made.now) /\ made.entry.PID >= 0
          THEN InheritedFrom(made.entry)
          ELSE FromStateTables(made.entry, made.osPid)

\* the entry ended 4 seconds ago and had a real PID and a process: the
\* Connection has the PID of the OS state tables
C17_EndedEntryNotInherited ==
    /\ made.kind = "dns"
    /\ made.entry.ok /\ made.entry.PID = 9001 /\ ~made.entry.process.nil
    /\ made.entry.Ended = made.now - 4
    /\ conn.PID = made.osPid
    /\ lastCall.op = "Save"

\* C17 (as stated): the DNS-request Connection inherits the PID and the
\* process of the entry found for it if and only if the entry is live;
\* otherwise the PID is the one of the OS state tables.
C17_InheritsIffLive ==
    made.kind = "dns" =>
        IF Live(made.entry, made.now)
          THEN InheritedFrom(made.entry)
          ELSE FromStateTables(made.entry, made.osPid)

\* C18: when the first packet of a worker expects info and the worker waits
\* for a second packet, the first packet is handled by the worker all the
\* same: when the wait ends without a packet the worker goes on to handle
\* the packet it holds, the packet is eventually handled, and the worker
\* waits for its first packet only.
HandledByWorker(n) == \E i \in DOMAIN handled : handled[i].id = n /\ handled[i].via = "worker"

C18_WaitedPacketStillHandled ==
    /\ [](\A w \in Workers : pc[w] \in {"select", "waiting"} => wl[w].seq = 1)
    /\ [][\A w \in Workers :
            (pc[w] = "waiting" /\ pc'[w] # "waiting" /\ chans' = chans) =>
               /\ pc'[w] = "lock"
               /\ wl'[w].stage = "main" /\ wl'[w].pkt = wl[w].pkt]_vars
    /\ \A w \in Workers : \A n \in 1..MaxDetachPkts :
          (pc[w] = "waiting" /\ wl[w].pkt.id = n) ~> HandledByWorker(n)

\* the worker is in the handler with its first packet, which expects info,
\* after it waited in vain: no other packet was offered and the queue is open
C18_HandlingAfterTimeout ==
    \E w \in Workers :
        /\ pc[w] = "custom"
        /\ wl[w].pkt.expectInfo /\ wl[w].stage = "main" /\ wl[w].seq = 1
        /\ ~chans[wl[w].q].closed
        /\ nextPkt = 1

(***************************************************************************)
(* The reordering heuristic with the process-wide flag.  The flag is       *)
(* shared by the workers of all connections: the worker of another         *)
(* connection that sees an info-only first packet sets it.  The scheduling *)
(* is fair as in SpecDetach.                                               *)
(***************************************************************************)
\* line 916, executed by the worker of another connection
OtherWorkerSetsFlag ==
    /\ ~infoOnlyPacketsActive
    /\ infoOnlyPacketsActive' = TRUE
    /\ UNCHANGED <<conn, conns, dnsConns, pushed, saved, lastCall, chans, mutex, pktQueueLock,
                   pc, wl, nworkers, ctxDone, nextPkt, handled, running, dropped,
                   assigned, made, imp, panicked>>

NextReorder ==
    \/ OwnerLock
    \/ OwnerUnlock
    \/ \E t \in Threads : SetFirewallHandler(t, "h1", DetachLim)
    \/ \E t \in Threads : StopFirewallHandler(t)
    \/ \E t \in Callers, k \in PacketKinds : HandlePacketQueue(t, k, DetachLim)
    \/ \E t \in Callers, k \in PacketKinds : HandlePacketDefault(t, k, DetachLim)
    \/ \E t \in Callers : HandlePacketReturn(t)
    \/ \E w \in Workers : WorkerStep(w)
    \/ OtherWorkerSetsFlag

SpecReorder ==
    /\ Init
    /\ [][NextReorder]_vars
    /\ \A w \in Workers : WF_vars(WorkerStep(w))
    /\ \A w \in Workers : SF_vars(HandleConnLock(w))
    /\ \A t \in Callers : WF_vars(HandlePacketReturn(t))
    /\ WF_vars(OwnerUnlock)

HandledIds == {handled[i].id : i \in DOMAIN handled}

\* the worker holds its first packet and a second one it took during the wait
Pulled(w) == wl[w].stage = "info"

\* C19: when a worker waits for info with its first packet (the packet
\* expects info, or the flag is set and the packet is outbound) and takes a
\* second packet from the queue during the wait, the handler gets the second
\* packet before the first, both packets are eventually handled and no
\* packet is handled twice, and the worker's counter stands at two when it
\* turns to the first packet, so that it never waits again.
C19_PulledForwardThenOriginal ==
    /\ [](\A w \in Workers : Pulled(w) =>
            /\ wl[w].seq = 1
            /\ ~wl[w].pkt.infoOnly
            /\ wl[w].pkt.expectInfo \/ (infoOnlyPacketsActive /\ IsOutbound(wl[w].pkt))
            /\ wl[w].pkt.id \notin HandledIds
            /\ pc[w] = "lock" => wl[w].info.id \notin HandledIds)
    /\ [][\A w \in Workers :
            /\ (pc[w] \in {"select", "waiting"} /\ pc'[w] = "lock" /\ chans' # chans) =>
                  /\ Pulled(w)'
                  /\ wl'[w].info = RecvValue(wl[w].q) /\ wl'[w].pkt = wl[w].pkt
            /\ (Pulled(w) /\ ~Pulled(w)') =>
                  /\ wl'[w].seq = 2 /\ pc'[w] = "lock" /\ wl'[w].pkt = wl[w].pkt
                  /\ wl[w].info.id \in HandledIds /\ wl[w].pkt.id \notin HandledIds]_vars
    /\ [](\A w \in Workers : wl[w].seq >= 2 => pc[w] \notin {"select", "waiting"})
    /\ [](\A i, j \in DOMAIN handled : handled[i].id = handled[j].id => i = j)
    /\ \A w \in Workers : \A m, n \in 1..MaxDetachPkts :
          (Pulled(w) /\ wl[w].info.id = m /\ wl[w].pkt.id = n)
             ~> (HandledByWorker(m) /\ HandledByWorker(n))

\* with the flag set, the worker handled packet 2 and then packet 1, counted
\* two packets and is back at the dequeue
C19_SecondHandledFirst ==
    \E w \in Workers :
        /\ pc[w] = "dequeue" /\ wl[w].seq = 2
        /\ infoOnlyPacketsActive
        /\ Len(handled) = 2
        /\ handled[1].id = 2 /\ handled[1].via = "worker"
        /\ handled[2].id = 1 /\ handled[2].via = "worker"

\* the worker leaves the switch on the packet it dequeued
LeavesSwitch(w) == pc[w] = "reorder" /\ pc'[w] # "reorder"

\* C20: infoOnlyPacketsActive is set-only.  It is never reset; it becomes
\* true only in the step in which a worker finds that its first packet
\* (pktSeq = 1) is info-only, that step always leaves it set, and a worker
\* that finds a later packet (pktSeq > 1) info-only leaves it as it was.
C20_FlagSetByFirstInfoOnly ==
    [][/\ infoOnlyPacketsActive => infoOnlyPacketsActive'
       /\ (~infoOnlyPacketsActive /\ infoOnlyPacketsActive') =>
             \E w \in Workers : LeavesSwitch(w) /\ wl[w].seq = 1 /\ wl[w].pkt.infoOnly
       /\ \A w \in Workers :
             /\ (LeavesSwitch(w) /\ wl[w].seq = 1 /\ wl[w].pkt.infoOnly) =>
                   infoOnlyPacketsActive'
             /\ (LeavesSwitch(w) /\ wl[w].seq > 1) =>
                   infoOnlyPacketsActive' = infoOnlyPacketsActive]_vars

\* the flag is set and a worker goes on to handle its info-only first packet
C20_SetOnFirstPacket ==
    /\ infoOnlyPacketsActive
    /\ \E w \in Workers : pc[w] = "lock" /\ wl[w].seq = 1 /\ wl[w].pkt.infoOnly

(***************************************************************************)
(* The two locks.  SetFirewallHandler and StopFirewallHandler are called   *)
(* with the connection mutex held and begin with pktQueueLock.Lock(); the  *)
(* call blocks there while HandlePacket runs the default handler under     *)
(* pktQueueLock.  The scheduling is fair as in SpecDetach.                 *)
(***************************************************************************)
WaitingPc(p) == IF p = "locked" THEN "lockedWait" ELSE "customWait"
ResumedPc(p) == IF p = "lockedWait" THEN "locked" ELSE "custom"

\* the thread is at conn.pktQueueLock.Lock() (l.813, l.841)
AtQueueLock(t) == pc[t] \in {"lockedWait", "customWait"}

\* lines 813, 841: pktQueueLock.Lock() finds the lock taken and blocks
BlockOnQueueLock(t) ==
    /\ InUserCode(t)
    /\ pktQueueLock # NoOne
    /\ pc' = [pc EXCEPT ![t] = WaitingPc(@)]
    /\ UNCHANGED <<conn, conns, dnsConns, pushed, saved, lastCall, chans, mutex, pktQueueLock,
                   infoOnlyPacketsActive, wl, nworkers, ctxDone, nextPkt, handled,
                   running, dropped, assigned, made, imp, panicked>>

\* the lock is free again: the blocked call goes on
QueueLockFree(t) ==
    /\ AtQueueLock(t)
    /\ pktQueueLock = NoOne
    /\ pc' = [pc EXCEPT ![t] = ResumedPc(@)]
    /\ UNCHANGED <<conn, conns, dnsConns, pushed, saved, lastCall, chans, mutex, pktQueueLock,
                   infoOnlyPacketsActive, wl, nworkers, ctxDone, nextPkt, handled,
                   running, dropped, assigned, made, imp, panicked>>

NextLocks ==
    \/ OwnerLock
    \/ OwnerUnlock
    \/ \E t \in Threads : SetFirewallHandler(t, "h1", DetachLim)
    \/ \E t \in Threads : StopFirewallHandler(t)
    \/ \E t \in Threads : BlockOnQueueLock(t)
    \/ \E t \in Threads : QueueLockFree(t)
    \/ \E t \in Callers, k \in PacketKinds : HandlePacketQueue(t, k, DetachLim)
    \/ \E t \in Callers, k \in PacketKinds : HandlePacketDefault(t, k, DetachLim)
    \/ \E t \in Callers : HandlePacketReturn(t)
    \/ \E w \in Workers : WorkerStep(w)

SpecLocks ==
    /\ Init
    /\ [][NextLocks]_vars
    /\ \A w \in Workers : WF_vars(WorkerStep(w))
    /\ \A w \in Workers : SF_vars(HandleConnLock(w))
    /\ WF_vars(\E t \in Threads : QueueLockFree(t))
    /\ \A t \in Callers : WF_vars(HandlePacketReturn(t))
    /\ WF_vars(OwnerUnlock)

\* C21 (as stated): a thread that is acquiring the queue lock does not hold
\* the connection mutex.
C21_QueueLockBeforeMutex ==
    \A t \in Threads : AtQueueLock(t) => mutex # t

\* C21 (amended): the locking order is connection mutex, then queue lock.
\* No thread acquires the connection mutex while it holds the queue lock,
\* and the two locks never deadlock: a thread blocked at the queue lock
\* gets on, and each lock is free again and again.
C21_MutexBeforeQueueLock ==
    /\ [][\A t \in Threads :
            (mutex' = t /\ mutex # t) => (pktQueueLock # t /\ pktQueueLock' # t)]_vars
    /\ [](\A t \in Threads : pktQueueLock = t => mutex # t)
    /\ \A t \in Threads : AtQueueLock(t) ~> ~AtQueueLock(t)
    /\ []<>(pktQueueLock = NoOne)
    /\ []<>(mutex = NoOne)

\* a worker inside the firewall handler, holding the connection mutex, is
\* blocked at the queue lock, which HandlePacket's caller holds
C21_HandlerBlockedAtQueueLock ==
    \E w \in Workers :
        /\ pc[w] = "customWait" /\ mutex = w
        /\ pktQueueLock \in Callers

(***************************************************************************)
(* Verdict calls with and without an option key.  The reason of a call     *)
(* names the option key the call was made with, so that Reason.Msg tells   *)
(* what the last call provided.                                            *)
(***************************************************************************)
KeysGiven == {"", "filter/defaultAction", "filter/blockInbound"}
MsgFor(k) == IF k = "" THEN "nokey" ELSE k

\* Accept, Deny, and SetVerdict with VerdictFailed
KeyedOps == {"Accept", "Deny", "SetVerdict"}
KeyedCall(op, k, x) == CallVerdict(Owner, op, VerdictFailed, MsgFor(k), k, x)

NextKey ==
    \/ OwnerLock
    \/ OwnerUnlock
    \/ \E env \in VerdictEnvs : CallGather(Owner, MkPacket(1, PlainKind), env)
    \/ \E op \in KeyedOps, k \in KeysGiven, x \in Contexts : KeyedCall(op, k, x)

SpecKey == InitVerdict /\ [][NextKey]_vars

KeyedCalls == [op : KeyedOps, k : KeysGiven, x : Contexts]
NowCalled(a) == KeyedCall(a.op, a.k, a.x)

\* C22 (as stated): after every verdict call Msg and Context are those of
\* the call, and OptionKey and Profile are set from the process profile if
\* and only if the call provided an option key.
C22_KeySetIffProvided ==
    [][\A a \in KeyedCalls :
          NowCalled(a) =>
             /\ conn'.Reason.Msg = MsgFor(a.k) /\ conn'.Reason.Context = a.x
             /\ conn'.Reason.OptionKey = a.k
             /\ conn'.Reason.Profile =
                   IF a.k # "" THEN GetProfileSource(conn.process, a.k) ELSE ""]_vars

\* C22 (amended): after every verdict call Msg and Context are those of
\* the call, and OptionKey and Profile are set from the process profile if
\* and only if the call provided an option key and the process has a
\* profile; otherwise both are empty.  No OptionKey or Profile of an
\* earlier call survives a call made without an option key.
C22_KeySetIffProvidedAndProfiled ==
    /\ [][\A a \in KeyedCalls :
            NowCalled(a) =>
               LET set == a.k # "" /\ HasProfile(conn.process)
               IN  /\ conn'.Reason.Msg = MsgFor(a.k) /\ conn'.Reason.Context = a.x
                   /\ conn'.Reason.OptionKey = IF set THEN a.k ELSE ""
                   /\ conn'.Reason.Profile =
                         IF set THEN GetProfileSource(conn.process, a.k) ELSE ""]_vars
    /\ [](conn.Reason.Msg = "nokey" =>
             conn.Reason.OptionKey = "" /\ conn.Reason.Profile = "")
    /\ [](conn.Reason.OptionKey # "" =>
             conn.Reason.OptionKey = conn.Reason.Msg /\ conn.Reason.Profile # "")

\* the last verdict call provided an option key on a Connection whose
\* process has no profile: Msg is the call's and the option key is empty
C22_KeyGivenWithoutProfile ==
    /\ conn.Reason.Msg = "filter/blockInbound"
    /\ conn.Reason.Context = "ctx1"
    /\ ~HasProfile(conn.process)
    /\ conn.Reason.OptionKey = "" /\ conn.Reason.Profile = ""

(***************************************************************************)
(* Enrichment by the firewall handler: the handler that runs in the        *)
(* worker calls GatherConnectionInfo with the packet it was given, so the  *)
(* packets handled so far are the packets the Connection has seen.         *)
(***************************************************************************)
HandlerGathers(w, env) == CallGather(w, CurPkt(w), env)

NextGather ==
    \/ OwnerLock
    \/ OwnerUnlock
    \/ SetFirewallHandler(Owner, "h1", DetachLim)
    \/ \E t \in Threads : StopFirewallHandler(t)
    \/ \E t \in Callers, k \in PacketKinds : HandlePacketQueue(t, k, DetachLim)
    \/ \E w \in Workers : WorkerStep(w)
    \/ \E w \in Workers, env \in VerdictEnvs : HandlerGathers(w, env)

SpecGather == InitVerdict /\ [][NextGather]_vars

\* all data for a complete Connection is there after a call made with pkt
AllDataFor(c, pkt) ==
    /\ ~pkt.infoOnly
    /\ ~c.process.nil
    /\ HasProfile(c.process)
    /\ ~c.Entity.nil

\* C23: a call of GatherConnectionInfo leaves dataComplete set exactly when
\* it was set before or the packet is not info-only, the process and its
\* profile are known and the Entity exists; a call with an info-only packet
\* changes neither the process, nor the profile revision, nor dataComplete;
\* and while all packets seen are info-only the Connection has no process
\* and is not complete.
C23_CompleteOnlyByRealPacket ==
    /\ [][\A w \in Workers, env \in VerdictEnvs :
            HandlerGathers(w, env) =>
               /\ conn'.dataComplete <=> (conn.dataComplete \/ AllDataFor(conn', CurPkt(w)))
               /\ CurPkt(w).infoOnly =>
                     /\ conn'.process = conn.process
                     /\ conn'.ProfileRevisionCounter = conn.ProfileRevisionCounter
                     /\ conn'.dataComplete = conn.dataComplete]_vars
    /\ []((\A i \in DOMAIN handled : handled[i].infoOnly) =>
             (conn.process.nil /\ ~conn.dataComplete))

\* two info-only packets were handled and enriched the Connection, which has
\* its Entity, and its PID and direction from the state tables, but no
\* process, and is not complete
C23_OnlyInfoOnlySeen ==
    /\ Len(handled) = 2 /\ \A i \in DOMAIN handled : handled[i].infoOnly
    /\ ~conn.Entity.nil /\ conn.PID # UndefinedProcessID /\ conn.Inbound
    /\ conn.process.nil /\ ~conn.dataComplete

(***************************************************************************)
(* Scope and domain.  GatherConnectionInfo is applied to Connections of    *)
(* both directions (Inbound is an exported field, which the creator of     *)
(* the Connection sets from the packet's direction), to packets of every   *)
(* kind and remote IP scope, and with every answer of the resolver and of  *)
(* the captive-portal check.                                               *)
(***************************************************************************)
ScopeEnvs ==
    { e \in GatherEnvs :
        /\ e.pid = 4711
        /\ e.proc \in {NilProcess, MkProcess(0, TRUE, FALSE)}
        /\ e.mayHistory /\ e.mayBW /\ e.enableHistory }

InitScope ==
    \E pid \in Pids, inbound \in BOOLEAN :
        InitPipe([NewIncompleteConnection(pid, SomeNow, SomeNow) EXCEPT !.Inbound = inbound])

OwnerGathers(k, env) == CallGather(Owner, MkPacket(1, k), env)

NextScope ==
    \/ OwnerLock
    \/ OwnerUnlock
    \/ \E k \in PacketKinds, env \in ScopeEnvs : OwnerGathers(k, env)

SpecScope == InitScope /\ [][NextScope]_vars

\* C24: the call of GatherConnectionInfo that creates the Entity sets Scope
\* by the table from Inbound and the Entity's IP scope (unless a domain is
\* found in the same call, which then is the Scope); a call on a Connection
\* that has its Entity changes neither the IP scope nor, unless it finds a
\* domain, the Scope.
C24_ScopeByTableOnce ==
    [][LET ipScope == conn'.Entity.IPScope
           class == CASE ipScope = "HostLocal" -> "Host"
                      [] ipScope = "LinkLocal" -> "LAN"
                      [] ipScope = "SiteLocal" -> "LAN"
                      [] ipScope = "LocalMulticast" -> "LAN"
                      [] ipScope = "Global" -> "Internet"
                      [] ipScope = "GlobalMulticast" -> "Internet"
                      [] OTHER -> "Invalid"
           side == IF conn.Inbound THEN "Incoming" ELSE "Peer"
       IN  IF conn.Entity.nil
             THEN conn' # conn =>
                     /\ ~conn'.Entity.nil
                     /\ conn'.Entity.Domain = "" => conn'.Scope = side \o class
             ELSE /\ conn'.Entity.IPScope = conn.Entity.IPScope
                  /\ conn'.Entity.Domain = conn.Entity.Domain =>
                        conn'.Scope = conn.Scope]_vars

\* an inbound Connection to a local multicast address, complete, with the
\* Scope of its first packet
C24_IncomingLANKept ==
    /\ conn.Inbound /\ conn.Entity.IPScope = "LocalMulticast"
    /\ conn.Scope = "IncomingLAN"
    /\ conn.dataComplete

(***************************************************************************)
(* The domain of the Entity.  The resolver is asked for the IP info in the *)
(* profile's scope and, when that fails, in the global scope; each answer  *)
(* is an error, an IP info without a domain, or an IP info with a domain.  *)
(***************************************************************************)
ProfileScopeDomain == "example.com"
GlobalScopeDomain == "global.example"
IPInfoFailed == [err |-> TRUE, domain |-> ""]
IPInfoAnswers(d) == {IPInfoFailed, [err |-> FALSE, domain |-> ""], [err |-> FALSE, domain |-> d]}

\* lines 530-537: GetIPInfo in the profile's scope, then in the global scope,
\* and the most recent domain of the IP info ("" when there is none)
MostRecentDomain(inProfile, inGlobal) ==
    LET ipinfo == IF inProfile.err THEN inGlobal ELSE inProfile
    IN  IF ipinfo.err THEN "" ELSE ipinfo.domain

DomainEnvs ==
    { e \in GatherEnvs :
        /\ e.remoteScope = "Global" /\ e.pid = 4711 /\ ~e.inbound
        /\ e.proc \in {NilProcess, MkProcess(0, TRUE, FALSE)}
        /\ e.domain = ""
        /\ e.mayHistory /\ e.mayBW /\ e.enableHistory }

GatherWithResolver(k, env, inProfile, inGlobal) ==
    CallGather(Owner, MkPacket(1, k),
               [env EXCEPT !.domain = MostRecentDomain(inProfile, inGlobal)])

NextDomain ==
    \/ OwnerLock
    \/ OwnerUnlock
    \/ \E k \in PacketKinds, env \in DomainEnvs,
          inProfile \in IPInfoAnswers(ProfileScopeDomain),
          inGlobal \in IPInfoAnswers(GlobalScopeDomain) :
            GatherWithResolver(k, env, inProfile, inGlobal)
    \/ CallVerdict(Owner, "Deny", VerdictUndecided, "r1", "", "nil")
    \/ SetFirewallHandler(Owner, "h1", LifeLim)
    \/ StopFirewallHandler(Owner)

SpecDomain == InitVerdict /\ [][NextDomain]_vars

\* C25: a domain that is set is never overwritten; a Connection with a
\* domain has that domain as its Scope; and a call of GatherConnectionInfo
\* on a Connection without a domain sets, for a real packet, the domain of
\* the IP info in the profile's scope, else (when that lookup failed) of
\* the IP info in the global scope, both only if the process has a profile,
\* else the captive portal's domain if the remote IP is the portal's, and
\* sets none otherwise or for an info-only packet.
C25_DomainBackfilledInOrder ==
    /\ [][conn.Entity.Domain # "" => conn'.Entity.Domain = conn.Entity.Domain]_vars
    /\ [](conn.Entity.Domain # "" => conn.Scope = conn.Entity.Domain)
    /\ [][\A k \in PacketKinds, env \in DomainEnvs,
             inProfile \in IPInfoAnswers(ProfileScopeDomain),
             inGlobal \in IPInfoAnswers(GlobalScopeDomain) :
               (GatherWithResolver(k, env, inProfile, inGlobal) /\ conn.Entity.Domain = "") =>
                  conn'.Entity.Domain =
                     CASE k.infoOnly -> ""
                       [] HasProfile(conn'.process) /\ ~inProfile.err /\ inProfile.domain # "" ->
                            ProfileScopeDomain
                       [] HasProfile(conn'.process) /\ inProfile.err
                            /\ ~inGlobal.err /\ inGlobal.domain # "" -> GlobalScopeDomain
                       [] env.portal -> PortalDomain
                       [] OTHER -> ""]_vars

\* the domain was found in the global scope and is the Scope
C25_DomainFromGlobalScope ==
    /\ conn.Entity.Domain = GlobalScopeDomain
    /\ conn.Scope = GlobalScopeDomain
    /\ conn.dataComplete

\* the worker comes back from packetHandlerHandleConn
HandleConnReturns(w) == pc[w] \in {"custom", "default"} /\ pc'[w] \notin {"custom", "default"}

\* C26: when the worker has handled a packet, by the firewall handler or by
\* the default handler, and the Connection was flagged saveWhenFinished,
\* the flag is cleared and Save was called.
C26_SavedWhenFinished ==
    [][\A w \in Workers :
          (HandleConnReturns(w) /\ conn.saveWhenFinished) =>
             /\ ~conn'.saveWhenFinished
             /\ lastCall'.op = "Save"]_vars

\* C27: a call of GatherConnectionInfo with a real packet for which the
\* process or its profile is not resolved leaves the Connection incomplete,
\* and a call with a real packet for which the lookup gives the process
\* with its profile completes the Connection, also after earlier lookups
\* failed.
C27_LookupRetriedUntilResolved ==
    [][\A k \in LifeKinds, env \in LifeEnvs :
          (CallGather(Owner, MkPacket(1, k), env) /\ ~k.infoOnly /\ ~conn.dataComplete) =>
             IF HasProfile(env.proc)
               THEN conn'.dataComplete
               ELSE ~conn'.dataComplete]_vars

\* C28: a packet-built Connection that has its Entity and no domain has an
\* Incoming* Scope if and only if it is inbound.
C28_ScopeAgreesWithInbound ==
    (conn.Type = IPConnection /\ ~conn.Entity.nil /\ conn.Entity.Domain = "") =>
        (conn.Inbound <=>
           conn.Scope \in {"IncomingHost", "IncomingLAN", "IncomingInternet", "IncomingInvalid"})

\* C29: no send on a closed (or nil) queue and no second close ever
\* happens, and pktQueueActive is set exactly when pktQueue is an open
\* channel; when it is not set, pktQueue is nil.
C29_QueueActiveIffOpen ==
    /\ ~panicked
    /\ IF conn.pktQueueActive
         THEN conn.pktQueue # 0 /\ ~chans[conn.pktQueue].closed
         ELSE conn.pktQueue = 0

\* after a first queue was closed and a handler was attached again, a packet
\* is in the second queue, and the handler was stopped once more
C29_ReattachedAndStoppedAgain ==
    /\ Len(chans) >= 2
    /\ \A q \in DOMAIN chans : chans[q].closed
    /\ chans[2].buf # <<>>
    /\ ~conn.pktQueueActive

\* the packet was accepted into a queue and is still buffered there
Buffered(n) ==
    \E q \in DOMAIN chans : \E i \in DOMAIN chans[q].buf : chans[q].buf[i].id = n

\* C30: while the context is not cancelled, every packet accepted into the
\* queue is eventually handled by the worker, and no packet is handled twice.
C30_QueuedEventuallyHandled ==
    /\ \A n \in 1..MaxDetachPkts : Buffered(n) ~> HandledByWorker(n)
    /\ [](\A i, j \in DOMAIN handled : handled[i].id = handled[j].id => i = j)

(***************************************************************************)
(* package sync: parseExport.  An import request is parsed with what its   *)
(* collaborators answer: dsd.MimeLoad gives an error or the format of the  *)
(* export, and filesig.VerifyJSONChecksum / VerifyYAMLChecksum give nil    *)
(* or an error.  An error value is the set of the errors in its chain, so  *)
(* that errors.Is is membership; nil is the empty set.                     *)
(***************************************************************************)
MaxImports == 4

NilError == {}
ErrChecksumMissing == "filesig.ErrChecksumMissing"
ErrChecksumMismatch == "filesig.ErrChecksumMismatch"
ErrInvalidImportRequest == "ErrInvalidImportRequest"
ErrLoad == "dsd load error"

ExportFormats == {"JSON", "YAML", "CBOR", "MsgPack"}
\* dsd.MimeLoad(request.RawExport, request.RawMime, export)
LoadAnswers ==
    {[err |-> {ErrLoad}, format |-> "none"]} \cup
    {[err |-> NilError, format |-> f] : f \in ExportFormats}
\* filesig.VerifyJSONChecksum / filesig.VerifyYAMLChecksum
VerifyAnswers == {NilError, {ErrChecksumMissing}, {ErrChecksumMismatch}}

\* errors.Is(err, target)
ErrorsIs(err, target) == target \in err
\* fmt.Errorf("...%w...", errs...)
Wrap(errs) == UNION errs

\* lines 127-147
parseExport(load, verify) ==
    IF load.err # NilError
      THEN Wrap({{ErrInvalidImportRequest}, load.err})
      ELSE LET err == IF load.format \in {"JSON", "YAML"} THEN verify ELSE NilError
           IN  IF err # NilError /\ ErrorsIs(err, ErrChecksumMissing)
                 THEN Wrap({err})
                 ELSE NilError

connVars == <<conn, conns, dnsConns, pushed, saved, lastCall, chans, mutex, pktQueueLock,
              infoOnlyPacketsActive, pc, wl, nworkers, ctxDone, nextPkt, handled,
              running, dropped, assigned, made, panicked>>

\* an import request arrives and parseExport is called
ParseExportCalled(load, verify) ==
    /\ imp.phase \in {"idle", "returned"}
    /\ imp.n < MaxImports
    /\ imp' = [phase |-> "parsing", n |-> imp.n + 1, load |-> load, verify |-> verify]
    /\ UNCHANGED connVars

\* parseExport returns
ParseExportReturns ==
    /\ imp.phase = "parsing"
    /\ imp' = [phase |-> "returned", n |-> imp.n, load |-> imp.load, verify |-> imp.verify,
               result |-> parseExport(imp.load, imp.verify)]
    /\ UNCHANGED connVars

NextImport ==
    \/ \E load \in LoadAnswers, verify \in VerifyAnswers : ParseExportCalled(load, verify)
    \/ ParseExportReturns

SpecImport == Init /\ [][NextImport]_vars

\* C31: parseExport returns an error that wraps ErrInvalidImportRequest when
\* the export cannot be parsed; for a parsed JSON or YAML export it returns
\* an error exactly when a checksum is present and fails verification (nil
\* when the checksum is missing or verifies); for the other formats it
\* returns nil.
C31_ChecksumVerifiedIfAvailable ==
    imp.phase = "returned" =>
       IF imp.load.err # NilError
         THEN ErrorsIs(imp.result, ErrInvalidImportRequest)
         ELSE IF imp.load.format \in {"JSON", "YAML"}
                THEN (imp.result # NilError) <=>
                        (imp.verify # NilError /\ ~ErrorsIs(imp.verify, ErrChecksumMissing))
                ELSE imp.result = NilError

====
